---------------------------- MODULE Spec2Model ----------------------------
(***************************************************************************)
(* Branch-and-price for the partition coloring problem: a model of the     *)
(* auxiliary graph (src/model/a_graph.py), the node queue and the main     *)
(* loop of BranchAndPrice (src/bpc/branch_and_price.py), the column pool   *)
(* filters of the branching decisions (src/bpc/branching) and the column   *)
(* generation loop (src/cg/column_generation.py).                          *)
(*                                                                         *)
(* Objects that Python shares by reference are kept in heaps: an Edge is   *)
(* an index into edge_heap, an AuxiliaryGraph an index into graphs, so     *)
(* that an in-place assignment to edge.source is seen by every list that   *)
(* holds the same Edge.                                                    *)
(*                                                                         *)
(* Two statements of the code raise on every input that reaches them       *)
(* (a_graph.py:37 reads self.vertices_map before line 46 assigns it;       *)
(* branch_and_price.py:241 takes math.ceil of the root's -inf).  Each is   *)
(* modelled with both outcomes: the exception, and the continuation the    *)
(* surrounding code goes on to assume, so that the code behind them is     *)
(* analysed as well.                                                       *)
(***************************************************************************)
EXTENDS Integers, Sequences, FiniteSets, TLC

VARIABLES
    \* ---- the input Graph and the auxiliary graphs (SpecGraph) ----
    edge_heap,        \* Edge objects: <<[source, target]>>, an Edge is its index
    graph_edges,      \* Graph.edges: the list of Edge objects of the input graph
    graph_edges0,     \* the endpoints of Graph.edges as they were read from the input
    graphs,           \* AuxiliaryGraph objects, an AuxiliaryGraph is its index
    next_vertex_id,   \* the id the next Vertex() gets
    pools,            \* ColumnPool objects (each the list `columns`), a pool is its index
    g_nodes,          \* BPCNode objects: [a_graph, column_pool], indices into graphs and pools
    next_column_id,   \* ColumnIndependentSet._next_column_id
    g_ops,            \* number of mutating calls made so far
    g_last,           \* the last call: [op, node, args, raised, pre]
    \* ---- BranchAndPrice: the node queue (SpecQueue, Spec) ----
    node_queue,       \* self.node_queue: the heapq list of BPCNode
    nodes_created,    \* self.nodes_created
    next_nodeid,      \* the id the next BPCNode gets
    q_ops,            \* number of add_node / get_next_node calls made so far
    q_last,           \* the last queue call: [op, pre, result]
    q_drain,          \* objective values of the nodes returned since the last add_node
    \* ---- BranchAndPrice.solve (Spec) ----
    pc,               \* where solve is
    current_node,     \* current_node of the main loop
    best_objective,   \* self.best_objective
    best_solution,    \* self.best_solution: NoSolution or the solution recorded
    global_lower_bound, \* self.global_lower_bound
    optimal,          \* self.optimal
    nodes_processed,  \* self.nodes_processed
    nodes_pruned,     \* self.nodes_pruned
    status,           \* "status" of the dictionary solve returns
    true_optimum,     \* the optimum of the instance, in halves of a colour
    c_last,           \* the last step of solve and what it saw
    past_deadline,    \* time.time() > time_end
    \* ---- ColumnIndependentSet and ColumnPool of src/cg/column_pool.py (SpecPool) ----
    created_columns,  \* the ColumnIndependentSet objects constructed so far
    varMap,           \* ColumnPool.varMap: pricing problem -> the columns mapped, in order
    p_ops,            \* number of addColumn / removeColumn calls made so far
    p_last,           \* the last call on the pool: [op, column, pre, raised]
    \* ---- BranchCreator (SpecBranch) ----
    b_solution,       \* BranchCreator.solution: the columns and their values, in dict order
    b_last            \* the last call on the BranchCreator and what it left

gvars == <<edge_heap, graph_edges, graph_edges0, graphs, next_vertex_id, pools, g_nodes,
           next_column_id, g_ops, g_last>>

qvars == <<node_queue, nodes_created, next_nodeid>>

hvars == <<q_ops, q_last, q_drain>>

cvars == <<pc, current_node, best_objective, best_solution, global_lower_bound, optimal,
           nodes_processed, nodes_pruned, status, true_optimum, c_last>>

tvars == <<past_deadline>>

pvars == <<created_columns, varMap, p_ops, p_last>>

bvars == <<b_solution, b_last>>

vars == <<gvars, qvars, hvars, cvars, tvars, pvars, bvars>>

-----------------------------------------------------------------------------
(* Bounds of the model *)

\* Graph.edges has at most this many edges
MaxGraphEdges == 2
\* at most this many mutating calls on an auxiliary graph
MaxGraphOps == 2
\* at most this many add_node / get_next_node calls on a queue
MaxQueueOps == 6
\* objective values are counted in halves of a colour: 2 is one colour, 3 is 1.5 colours;
\* the largest objective value of a real (not artificial) solution
MaxObjective == 4
\* a node this many branchings below the root is not branched again: its relaxation is
\* solved by a colouring or has none
MaxDepth == 1
\* at most this many master solves in one column generation
MaxMasterSolves == 2
\* ColumnIndependentSet objects constructed, and calls made on a ColumnPool
MaxColumns == 2
MaxPoolOps == 3
\* columns of the solution a BranchCreator is given
MaxSolutionColumns == 2

-----------------------------------------------------------------------------
(* Values of BranchAndPrice and the state of the parts a specification leaves alone *)

\* float('-inf') and float('inf'): below and above every objective value
NegInf == -1

PosInf == 1000000

\* value=1000.0 of an artificial column, in halves of a colour: the objective of a
\* master solution that uses an artificial column
ArtificialCost == 2000

\* BPCNode(parent, a_graph, column_pool, objective_value, solution).  solution is kept
\* as its kind: "empty" ({}), "integer", "fractional", "artificial" (some artificial
\* column is in it).  lp and opt are not fields of the code: they are the value of the
\* node's linear relaxation and the best colouring in the node's subtree (PosInf: none),
\* which the solvers' answers depend on; depth is the number of branchings above it.
\* priced_rounds stands for the node's column_pool in solve: the number of pricing
\* rounds whose columns column generation has added to it (column_generation.py:57-58).
Node(id, objective_value, solution, lp, opt, depth) ==
    [nodeid |-> id, objective_value |-> objective_value, solution |-> solution,
     lp |-> lp, opt |-> opt, depth |-> depth, priced_rounds |-> 0]

\* None, where a node is expected
NoNode == Node(0, 0, "empty", 0, 0, 0)

\* self.best_solution = None
NoSolution == [kind |-> "None", nodeid |-> 0]

NoQueueCall == [op |-> "none", pre |-> <<>>, result |-> NoNode]

\* what one run of ColumnGeneration.solve did: the master objectives it was given, its
\* upper_bound, self.iteration, the calls of invokeMaster and invokePricing it made
\* (their numbers, and in trace their order)
NoRun == [zs |-> <<>>, upper_bound |-> 0, iteration |-> 0, master_calls |-> 0,
          pricing_calls |-> 0, terminated |-> FALSE, trace |-> <<>>, priced_with |-> <<>>]

NoStep == [op |-> "none", objective_value |-> 0, before |-> 0, before_solution |-> NoSolution,
           returned |-> FALSE, pricing_timed_out |-> FALSE, cg |-> NoRun]

\* a BranchAndPrice whose queue is not used
QueueIdle ==
    /\ node_queue = <<>>
    /\ nodes_created = 0
    /\ next_nodeid = 1
    /\ q_ops = 0
    /\ q_last = NoQueueCall
    /\ q_drain = <<>>

\* no ColumnPool of src/cg/column_pool.py in use
PricingProblems == {"main_pricing"}

NoPoolCall == [op |-> "none", column |-> 0, pre |-> <<>>, raised |-> FALSE]

PoolIdle ==
    /\ created_columns = <<>>
    /\ varMap = [pp \in PricingProblems |-> <<>>]
    /\ p_ops = 0
    /\ p_last = NoPoolCall

\* no BranchCreator made
NoBranchCall ==
    [op |-> "none", rule |-> 0, v |-> 0, u |-> 0, rule2_tried |-> FALSE, raised |-> FALSE]

BranchIdle ==
    /\ b_solution = <<>>
    /\ b_last = NoBranchCall

\* a BranchAndPrice on which solve is not called
SolveIdle ==
    /\ past_deadline = FALSE
    /\ PoolIdle
    /\ BranchIdle
    /\ pc = "idle"
    /\ current_node = NoNode
    /\ best_objective = PosInf
    /\ best_solution = NoSolution
    /\ global_lower_bound = NegInf
    /\ optimal = FALSE
    /\ nodes_processed = 0
    /\ nodes_pruned = 0
    /\ status = "none"
    /\ true_optimum = 0
    /\ c_last = NoStep

-----------------------------------------------------------------------------
(* The input graph: Vertex, Partition, Graph *)

\* the instance: vertices 0, 1, 2 (Graph.vertices), ids as the readers assign them
Vertices == {0, 1, 2}

\* Vertex.associated_partition.id: vertices 2q and 2q+1 form partition q.  A vertex made
\* by Vertex() in same_color is given no partition: NoPartition.
NoPartition == -1

PartitionOf(v) == IF v \in Vertices THEN v \div 2 ELSE NoPartition

Partitions == {PartitionOf(v) : v \in Vertices}

\* Partition.vertex_list, in id order
RECURSIVE SeqOfSet(_)
SeqOfSet(S) ==
    IF S = {} THEN <<>>
    ELSE LET m == CHOOSE x \in S : \A y \in S : x <= y
         IN <<m>> \o SeqOfSet(S \ {m})

PartitionVertexList(q) == SeqOfSet({v \in Vertices : PartitionOf(v) = q})

\* Graph.vertex_map = {v.id: v for v in vertices}
GraphVertexMap == SeqOfSet(Vertices)

Range(s) == {s[i] : i \in 1 .. Len(s)}

\* the unordered pair of an Edge
Pair(e) == {e.source, e.target}

\* the inputs: edge lists without self-loop and without a repeated unordered pair, as
\* the instance readers produce them
AllPairs == {<<u, w>> : u \in Vertices, w \in Vertices}

InputEdgeLists ==
    {s \in UNION {[1 .. n -> {p \in AllPairs : p[1] < p[2]}] : n \in 0 .. MaxGraphEdges} :
        \A i, j \in 1 .. Len(s) : i < j => (s[i][1] < s[j][1] \/ (s[i][1] = s[j][1] /\ s[i][2] < s[j][2]))}


-----------------------------------------------------------------------------
(* AuxiliaryGraph: src/model/a_graph.py *)

\* Edge(source, target): a new Edge object
NewEdge(heap, s, t) == Append(heap, [source |-> s, target |-> t])

\* a test of one orientation only, against which the symmetric test of EdgeExists is set
EdgeExistsOneWay(heap, edges, v, u) ==
    \E i \in 1 .. Len(edges) : heap[edges[i]].source = v /\ heap[edges[i]].target = u

\* any(e.source == v and e.target == u or e.source == u and e.target == v for e in edges)
EdgeExists(heap, edges, v, u) ==
    \E i \in 1 .. Len(edges) :
        \/ heap[edges[i]].source = v /\ heap[edges[i]].target = u
        \/ heap[edges[i]].source = u /\ heap[edges[i]].target = v

\* _get_auxiliary_edges: for i < j in vertex_list order, add Edge(vertex_i, vertex_j) when
\* both are in one partition and no edge joins them yet.  st = [heap, edges].
GetAuxStep(st, vi, vj) ==
    IF PartitionOf(vi) = PartitionOf(vj) /\ ~EdgeExists(st.heap, st.edges, vi, vj)
    THEN [heap |-> NewEdge(st.heap, vi, vj), edges |-> Append(st.edges, Len(st.heap) + 1)]
    ELSE st

RECURSIVE GetAuxLoop(_, _, _, _)
GetAuxLoop(st, vl, i, j) ==
    IF i > Len(vl) THEN st
    ELSE IF j > Len(vl) THEN GetAuxLoop(st, vl, i + 1, i + 2)
    ELSE GetAuxLoop(GetAuxStep(st, vl[i], vl[j]), vl, i, j + 1)

get_auxiliary_edges(heap, edges, vertex_list) ==
    GetAuxLoop([heap |-> heap, edges |-> edges], vertex_list, 1, 2)

\* AuxiliaryGraph.__init__(graph, vertices_map, auxiliary_edges=None, merged_vertices_map=None)
\* once _get_auxiliary_edges has a vertices_map to read: the edge list is graph.edges.copy()
\* (a new list of the same Edge objects) extended by the intra-partition edges.
AuxiliaryGraphInit(heap, gedges, vmap) ==
    LET st == get_auxiliary_edges(heap, gedges, vmap)
    IN [heap |-> st.heap,
        graph |-> [auxiliary_edges |-> st.edges,
                   vertices_map |-> vmap,
                   merged_vertices_map |-> <<>>,
                   weight_v |-> [v \in Range(vmap) |-> 0]]]

\* keys of merged_vertices_map, and the constituent list of a key
MergedKeys(g) == {g.merged_vertices_map[i].key : i \in 1 .. Len(g.merged_vertices_map)}

MergedList(g, z) ==
    LET i == CHOOSE k \in 1 .. Len(g.merged_vertices_map) : g.merged_vertices_map[k].key = z
    IN g.merged_vertices_map[i].list

SeqRemove(s, x) == LET Keep(y) == y # x IN SelectSeq(s, Keep)

FunRemove(f, x) == [y \in (DOMAIN f) \ {x} |-> f[y]]

\* the three statements that drop one plain vertex: pop it from vertices_map and from
\* weight_v when present, and keep the edges with neither endpoint on it
DropVertex(g, heap, v) ==
    LET NotOn(e) == heap[e].source # v /\ heap[e].target # v
    IN [g EXCEPT !.vertices_map = SeqRemove(@, v),
                 !.weight_v = FunRemove(@, v),
                 !.auxiliary_edges = SelectSeq(@, NotOn)]

RECURSIVE DropAll(_, _, _)
DropAll(g, heap, vs) ==
    IF vs = <<>> THEN g ELSE DropAll(DropVertex(g, heap, Head(vs)), heap, Tail(vs))

\* remove_vertex(vertex): a key of merged_vertices_map loses its constituents and its
\* entry in the map; any other vertex is dropped itself
remove_vertex(g, heap, vertex) ==
    IF vertex \in MergedKeys(g)
    THEN LET NotKey(m) == m.key # vertex
         IN [DropAll(g, heap, MergedList(g, vertex))
                EXCEPT !.merged_vertices_map = SelectSeq(@, NotKey)]
    ELSE DropVertex(g, heap, vertex)

RECURSIVE RemoveEach(_, _, _)
RemoveEach(g, heap, vs) ==
    IF vs = <<>> THEN g ELSE RemoveEach(remove_vertex(g, heap, Head(vs)), heap, Tail(vs))

\* remove_other_vertices_in_partition(vertex); the caller passes a vertex that has a partition
remove_other_vertices_in_partition(g, heap, vertex) ==
    LET members == PartitionVertexList(PartitionOf(vertex))
        NotMerged(v) == v \notin Range(MergedList(g, vertex))
        Other(v) == v # vertex
        removed == IF vertex \in MergedKeys(g) THEN SelectSeq(members, NotMerged)
                   ELSE SelectSeq(members, Other)
    IN RemoveEach(g, heap, removed)

\* the loop of same_color over the edge list: each endpoint on v or u becomes z, in place
Redirect(heap, edges, v, u, z) ==
    [i \in 1 .. Len(heap) |->
        IF i \in Range(edges)
        THEN [source |-> IF heap[i].source \in {v, u} THEN z ELSE heap[i].source,
              target |-> IF heap[i].target \in {v, u} THEN z ELSE heap[i].target]
        ELSE heap[i]]

\* same_color(vertex_v, vertex_u), z the id of the new Vertex()
same_color(g, heap, v, u, z) ==
    LET g1 == [g EXCEPT !.vertices_map = IF z \in Range(@) THEN @ ELSE Append(@, z)]
        heap1 == Redirect(heap, g1.auxiliary_edges, v, u, z)
        g2 == remove_vertex(remove_vertex(g1, heap1, v), heap1, u)
        g3 == IF z \in MergedKeys(g2) THEN g2
              ELSE [g2 EXCEPT !.merged_vertices_map = Append(@, [key |-> z, list |-> <<>>])]
        Extend(m) == IF m.key = z THEN [m EXCEPT !.list = @ \o <<v, u>>] ELSE m
    IN [heap |-> heap1,
        graph |-> [g3 EXCEPT !.merged_vertices_map =
                        [i \in 1 .. Len(@) |-> Extend(@[i])]]]

\* the dual vectors handed to update_weightf: one value for each partition
DualVectors == [Partitions -> {1, 2}]

\* associated_partition of a vertex made by Vertex() in same_color: the call passes no
\* partition, so it is any partition or none
MergedPartitions == Partitions \cup {NoPartition}

SetWeight(w, id, x) == [y \in (DOMAIN w) \cup {id} |-> IF y = id THEN x ELSE w[y]]

\* the first loop of update_weightf, over vertices_map.values():
\* weight_v[vertex.id] = dual[vertex.associated_partition.id]
RECURSIVE UpdatePlainWeights(_, _, _, _)
UpdatePlainWeights(w, ids, dual, zp) ==
    IF ids = <<>> THEN [raised |-> FALSE, weight_v |-> w]
    ELSE LET q == IF Head(ids) \in Vertices THEN PartitionOf(Head(ids)) ELSE zp
         IN IF q \notin DOMAIN dual
            THEN [raised |-> TRUE, weight_v |-> w]
            ELSE UpdatePlainWeights(SetWeight(w, Head(ids), dual[q]), Tail(ids), dual, zp)

RECURSIVE SumWeights(_, _)
SumWeights(w, list) ==
    IF list = <<>> THEN 0 ELSE w[Head(list)] + SumWeights(w, Tail(list))

\* the second loop, over merged_vertices_map.keys(): weight_v[vertex.id] = the sum of
\* weight_v[merged_vertex.id] over the list of the key; a constituent with no entry in
\* weight_v is a KeyError
RECURSIVE UpdateMergedWeights(_, _)
UpdateMergedWeights(w, mm) ==
    IF mm = <<>> THEN [raised |-> FALSE, weight_v |-> w]
    ELSE IF Range(Head(mm).list) \subseteq DOMAIN w
         THEN UpdateMergedWeights(SetWeight(w, Head(mm).key, SumWeights(w, Head(mm).list)),
                                  Tail(mm))
         ELSE [raised |-> TRUE, weight_v |-> w]

\* update_weightf(dual)
update_weightf(g, dual, zp) ==
    LET plain == UpdatePlainWeights(g.weight_v, g.vertices_map, dual, zp)
        merged == UpdateMergedWeights(plain.weight_v, g.merged_vertices_map)
        r == IF plain.raised THEN plain ELSE merged
    IN [raised |-> r.raised, graph |-> [g EXCEPT !.weight_v = r.weight_v]]

\* different_color(vertex_v, vertex_u): append Edge(v, u) unless an edge joins them
different_color(g, heap, v, u) ==
    IF EdgeExists(heap, g.auxiliary_edges, v, u)
    THEN [heap |-> heap, graph |-> g]
    ELSE [heap |-> NewEdge(heap, v, u),
          graph |-> [g EXCEPT !.auxiliary_edges = Append(@, Len(heap) + 1)]]

\* AuxiliaryGraph.copy(): an independent instance whose edges, vertex set, merged map and
\* weights are all clones (the method is called by branch_node and defined in no file)
RECURSIVE CloneEdges(_, _)
CloneEdges(heap, edges) ==
    IF edges = <<>> THEN [heap |-> heap, edges |-> <<>>]
    ELSE LET e == heap[Head(edges)]
             rest == CloneEdges(NewEdge(heap, e.source, e.target), Tail(edges))
         IN [heap |-> rest.heap, edges |-> <<Len(heap) + 1>> \o rest.edges]

\* a copy() that hands back the same instance, against which the deep copy is set
a_graph_alias(gs, heap, i) == [heap |-> heap, graphs |-> gs, index |-> i]

a_graph_copy(gs, heap, i) ==
    LET c == CloneEdges(heap, gs[i].auxiliary_edges)
    IN [heap |-> c.heap,
        graphs |-> Append(gs, [gs[i] EXCEPT !.auxiliary_edges = c.edges]),
        index |-> Len(gs) + 1]


-----------------------------------------------------------------------------
(* ColumnIndependentSet, ColumnPool, the column filters of the branching decisions *)

\* ColumnIndependentSet(vertex_list, ..., is_artificial, ...): the next column id is taken
Column(vertex_list, is_artificial, id) ==
    [vertex_list |-> vertex_list, is_artificial_column |-> is_artificial, columnid |-> id]

\* ColumnPool: the list `columns`; addColumn appends, removeColumn removes the column of
\* that identity, copy() is a new pool holding the same columns (the callers' ColumnPool;
\* the class of that interface is in no file)
addColumn(pool, c) == Append(pool, c)

removeColumn(pool, c) == LET Keep(d) == d.columnid # c.columnid IN SelectSeq(pool, Keep)

RECURSIVE RemoveColumns(_, _)
RemoveColumns(pool, cs) ==
    IF cs = <<>> THEN pool ELSE RemoveColumns(removeColumn(pool, Head(cs)), Tail(cs))

column_pool_copy(ps, i) == [pools |-> Append(ps, ps[i]), index |-> Len(ps) + 1]

\* _add_artificial_columns: one artificial column on the first vertex of each partition
RECURSIVE AddArtificial(_, _, _)
AddArtificial(pool, qs, id) ==
    IF qs = <<>> THEN pool
    ELSE AddArtificial(addColumn(pool, Column(<<PartitionVertexList(Head(qs))[1]>>, TRUE, id)),
                       Tail(qs), id + 1)

add_artificial_columns(id) == AddArtificial(<<>>, SeqOfSet(Partitions), id)

Contains(c, v) == v \in Range(c.vertex_list)

\* ImposedVertex.column_filter
ImposedVertex_column_filter(pool, vertex) ==
    LET Bad(c) == /\ ~c.is_artificial_column
                  /\ \E v \in Range(PartitionVertexList(PartitionOf(vertex))) :
                        v # vertex /\ Contains(c, v)
    IN RemoveColumns(pool, SelectSeq(pool, Bad))

\* a filter without the test on is_artificial, against which ForbidVertex's is set
ForbidVertex_filter_every_column(pool, vertex) ==
    LET Bad(c) == Contains(c, vertex) IN RemoveColumns(pool, SelectSeq(pool, Bad))

\* ForbidVertex.column_filter
ForbidVertex_column_filter(pool, vertex) ==
    LET Bad(c) == ~c.is_artificial_column /\ Contains(c, vertex)
    IN RemoveColumns(pool, SelectSeq(pool, Bad))

\* a filter without the elif on the second vertex, against which SameColor's is set
SameColor_filter_first_only(pool, v, u) ==
    LET Bad(c) == ~c.is_artificial_column /\ Contains(c, v) /\ ~Contains(c, u)
    IN RemoveColumns(pool, SelectSeq(pool, Bad))

\* SameColor.column_filter
SameColor_column_filter(pool, v, u) ==
    LET Bad(c) == /\ ~c.is_artificial_column
                  /\ \/ Contains(c, v) /\ ~Contains(c, u)
                     \/ ~Contains(c, v) /\ Contains(c, u)
    IN RemoveColumns(pool, SelectSeq(pool, Bad))

\* a filter that drops the columns holding either vertex, against which
\* DifferentColor's is set
DifferentColor_filter_either(pool, v, u) ==
    LET Bad(c) == ~c.is_artificial_column /\ (Contains(c, v) \/ Contains(c, u))
    IN RemoveColumns(pool, SelectSeq(pool, Bad))

\* DifferentColor.column_filter
DifferentColor_column_filter(pool, v, u) ==
    LET Bad(c) == ~c.is_artificial_column /\ Contains(c, v) /\ Contains(c, u)
    IN RemoveColumns(pool, SelectSeq(pool, Bad))

\* BranchingDecision.a_graph_update and column_filter of a decision
\* d = [kind, v, u]; z is the id of the Vertex() that same_color makes
a_graph_update(d, g, heap, z) ==
    CASE d.kind = "ImposedVertex" ->
            [heap |-> heap, graph |-> remove_other_vertices_in_partition(g, heap, d.v)]
      [] d.kind = "ForbidVertex" -> [heap |-> heap, graph |-> remove_vertex(g, heap, d.v)]
      [] d.kind = "SameColor" -> same_color(g, heap, d.v, d.u, z)
      [] d.kind = "DifferentColor" -> different_color(g, heap, d.v, d.u)

column_filter(d, pool) ==
    CASE d.kind = "ImposedVertex" -> ImposedVertex_column_filter(pool, d.v)
      [] d.kind = "ForbidVertex" -> ForbidVertex_column_filter(pool, d.v)
      [] d.kind = "SameColor" -> SameColor_column_filter(pool, d.v, d.u)
      [] d.kind = "DifferentColor" -> DifferentColor_column_filter(pool, d.v, d.u)

Decision(kind, v, u) == [kind |-> kind, v |-> v, u |-> u]

\* create_branch_rule1 / create_branch_rule2: the pair of decisions of a branching
BranchRule1(v) == <<Decision("ImposedVertex", v, v), Decision("ForbidVertex", v, v)>>

BranchRule2(v, u) == <<Decision("SameColor", v, u), Decision("DifferentColor", v, u)>>


-----------------------------------------------------------------------------
(* branch_node and the calls on the graph and the pool of a node.  The root's graph and
   pool are worked on until the first branching; from then on the newest children are
   branched further. *)

\* one pass of the loop of branch_node for decision d: copy the parent's graph and apply
\* a_graph_update, copy the parent's pool and apply column_filter, make the child node.
\* st = [heap, graphs, pools, nodes, next_vertex_id]
BranchChild(st, parent, d) ==
    LET gc == a_graph_copy(st.graphs, st.heap, st.nodes[parent].a_graph)
        up == a_graph_update(d, gc.graphs[gc.index], gc.heap, st.next_vertex_id)
        pcopy == column_pool_copy(st.pools, st.nodes[parent].column_pool)
    IN [heap |-> up.heap,
        graphs |-> [gc.graphs EXCEPT ![gc.index] = up.graph],
        pools |-> [pcopy.pools EXCEPT ![pcopy.index] = column_filter(d, @)],
        nodes |-> Append(st.nodes, [a_graph |-> gc.index, column_pool |-> pcopy.index]),
        next_vertex_id |-> IF d.kind = "SameColor" THEN st.next_vertex_id + 1
                           ELSE st.next_vertex_id]

branch_node(st, parent, branches) ==
    BranchChild(BranchChild(st, parent, branches[1]), parent, branches[2])

\* the edge list of a graph object with each Edge read from the heap
EdgeView(heap, g) == [i \in 1 .. Len(g.auxiliary_edges) |-> heap[g.auxiliary_edges[i]]]

\* what a caller sees of an AuxiliaryGraph
GraphView(heap, g) ==
    [edges |-> EdgeView(heap, g), vertices_map |-> g.vertices_map,
     merged_vertices_map |-> g.merged_vertices_map, weight_v |-> g.weight_v]

NodeView(heap, gs, ps, n) ==
    [a_graph |-> GraphView(heap, gs[n.a_graph]), column_pool |-> ps[n.column_pool]]

\* the vertex ids in use: the input's and those of the merged vertices made so far
KnownIds == 0 .. (next_vertex_id - 1)

\* an independent set of a graph: vertices of vertices_map, no edge inside (an edge from
\* a vertex to itself excludes the vertex)
IsIndependent(heap, g, S) ==
    /\ S # {}
    /\ S \subseteq Range(g.vertices_map)
    /\ \A i \in 1 .. Len(g.auxiliary_edges) :
          ~({heap[g.auxiliary_edges[i]].source, heap[g.auxiliary_edges[i]].target} \subseteq S)

\* the record of the last call: its arguments, whether it raised, what the caller saw
\* before it (pre) and, for branch_node, the first child as its pass left it (sib)
NoCall ==
    [op |-> "none", node |-> 0, v |-> 0, u |-> 0, raised |-> FALSE, pre |-> <<>>, sib |-> <<>>]

Call(op, n, v, u, pre) == [NoCall EXCEPT !.op = op, !.node = n, !.v = v, !.u = u, !.pre = pre]

AllNodeViews(heap, gs, ps, ns) == [k \in 1 .. Len(ns) |-> NodeView(heap, gs, ps, ns[k])]

NodeInit ==
    /\ \E el \in InputEdgeLists :
          /\ edge_heap = [i \in 1 .. Len(el) |-> [source |-> el[i][1], target |-> el[i][2]]]
          /\ graph_edges = [i \in 1 .. Len(el) |-> i]
          /\ graph_edges0 = [i \in 1 .. Len(el) |-> [source |-> el[i][1], target |-> el[i][2]]]
    /\ graphs = <<>>
    /\ pools = <<>>
    /\ g_nodes = <<>>
    /\ next_vertex_id = Cardinality(Vertices)
    /\ next_column_id = 1
    /\ g_ops = 0
    /\ g_last = NoCall
    /\ QueueIdle
    /\ SolveIdle

\* generate_root_node, stopped by the AttributeError of _get_auxiliary_edges
GenerateRootRaises ==
    /\ g_nodes = <<>>
    /\ g_last' = [NoCall EXCEPT !.op = "generate_root_node", !.raised = TRUE]
    /\ UNCHANGED <<edge_heap, graph_edges, graph_edges0, graphs, next_vertex_id, pools,
                   g_nodes, next_column_id, g_ops>>
    /\ UNCHANGED <<qvars, hvars, cvars, tvars, pvars, bvars>>

\* generate_root_node: the auxiliary graph of the input graph and the artificial columns
GenerateRoot ==
    /\ g_nodes = <<>>
    /\ LET r == AuxiliaryGraphInit(edge_heap, graph_edges, GraphVertexMap)
           pool == add_artificial_columns(next_column_id)
       IN /\ edge_heap' = r.heap
          /\ graphs' = <<r.graph>>
          /\ pools' = <<pool>>
          /\ next_column_id' = next_column_id + Len(pool)
    /\ g_nodes' = <<[a_graph |-> 1, column_pool |-> 1]>>
    /\ g_last' = Call("generate_root_node", 1, 0, 0, <<>>)
    /\ UNCHANGED <<graph_edges, graph_edges0, next_vertex_id, g_ops>>
    /\ UNCHANGED <<qvars, hvars, cvars, tvars, pvars, bvars>>

GraphOf(n) == graphs[g_nodes[n].a_graph]

PoolOf(n) == pools[g_nodes[n].column_pool]

RemoveVertex(n, v) ==
    /\ g_ops < MaxGraphOps
    /\ Len(g_nodes) = 1
    /\ graphs' = [graphs EXCEPT ![g_nodes[n].a_graph] = remove_vertex(@, edge_heap, v)]
    /\ g_ops' = g_ops + 1
    /\ g_last' = Call("remove_vertex", n, v, v, GraphView(edge_heap, GraphOf(n)))
    /\ UNCHANGED <<edge_heap, graph_edges, graph_edges0, next_vertex_id, pools, g_nodes,
                   next_column_id>>
    /\ UNCHANGED <<qvars, hvars, cvars, tvars, pvars, bvars>>

RemoveOtherVerticesInPartition(n, v) ==
    /\ g_ops < MaxGraphOps
    /\ Len(g_nodes) = 1
    /\ PartitionOf(v) # NoPartition
    /\ graphs' = [graphs EXCEPT ![g_nodes[n].a_graph] =
                        remove_other_vertices_in_partition(@, edge_heap, v)]
    /\ g_ops' = g_ops + 1
    /\ g_last' = Call("remove_other_vertices_in_partition", n, v, v,
                      GraphView(edge_heap, GraphOf(n)))
    /\ UNCHANGED <<edge_heap, graph_edges, graph_edges0, next_vertex_id, pools, g_nodes,
                   next_column_id>>
    /\ UNCHANGED <<qvars, hvars, cvars, tvars, pvars, bvars>>

SameColor(n, v, u) ==
    /\ g_ops < MaxGraphOps
    /\ Len(g_nodes) = 1
    /\ LET r == same_color(GraphOf(n), edge_heap, v, u, next_vertex_id)
       IN /\ edge_heap' = r.heap
          /\ graphs' = [graphs EXCEPT ![g_nodes[n].a_graph] = r.graph]
    /\ next_vertex_id' = next_vertex_id + 1
    /\ g_ops' = g_ops + 1
    /\ g_last' = Call("same_color", n, v, u, GraphView(edge_heap, GraphOf(n)))
    /\ UNCHANGED <<graph_edges, graph_edges0, pools, g_nodes, next_column_id>>
    /\ UNCHANGED <<qvars, hvars, cvars, tvars, pvars, bvars>>

DifferentColor(n, v, u) ==
    /\ g_ops < MaxGraphOps
    /\ Len(g_nodes) = 1
    /\ LET r == different_color(GraphOf(n), edge_heap, v, u)
       IN /\ edge_heap' = r.heap
          /\ graphs' = [graphs EXCEPT ![g_nodes[n].a_graph] = r.graph]
    /\ g_ops' = g_ops + 1
    /\ g_last' = Call("different_color", n, v, u, GraphView(edge_heap, GraphOf(n)))
    /\ UNCHANGED <<graph_edges, graph_edges0, next_vertex_id, pools, g_nodes, next_column_id>>
    /\ UNCHANGED <<qvars, hvars, cvars, tvars, pvars, bvars>>

\* generate_columns: the pricing solver adds the column of an independent set of the
\* node's graph, listed in the order of vertices_map
PricedColumnAdded(n, S) ==
    /\ IsIndependent(edge_heap, GraphOf(n), S)
    /\ LET Sel(v) == v \in S
           c == Column(SelectSeq(GraphOf(n).vertices_map, Sel), FALSE, next_column_id)
       IN pools' = [pools EXCEPT ![g_nodes[n].column_pool] = addColumn(@, c)]
    /\ next_column_id' = next_column_id + 1
    /\ g_ops' = g_ops + 1
    /\ g_last' = Call("generate_columns", n, 0, 0, <<>>)
    /\ UNCHANGED <<edge_heap, graph_edges, graph_edges0, graphs, next_vertex_id, g_nodes>>
    /\ UNCHANGED <<qvars, hvars, cvars, tvars, pvars, bvars>>

AddPricedColumn(n, S) ==
    /\ g_ops < MaxGraphOps
    /\ Len(g_nodes) = 1
    /\ PricedColumnAdded(n, S)

\* the decisions create_branch can return: rule 1 on a vertex of a partition, rule 2 on
\* the first pair (in the order of vertices_map) of vertices of different partitions
Branchings ==
    {BranchRule1(v) : v \in Vertices}
        \cup UNION {{BranchRule2(v, u) :
                        u \in {w \in KnownIds : v < w /\ PartitionOf(v) # PartitionOf(w)}} :
                    v \in KnownIds}

Branched(n, branches) ==
    /\ LET st == [heap |-> edge_heap, graphs |-> graphs, pools |-> pools,
                  nodes |-> g_nodes, next_vertex_id |-> next_vertex_id]
           first == BranchChild(st, n, branches[1])
           r == branch_node(st, n, branches)
       IN /\ edge_heap' = r.heap
          /\ graphs' = r.graphs
          /\ pools' = r.pools
          /\ g_nodes' = r.nodes
          /\ next_vertex_id' = r.next_vertex_id
          /\ g_last' = [Call("branch_node", n, branches[1].v, branches[1].u,
                             AllNodeViews(edge_heap, graphs, pools, g_nodes))
                            EXCEPT !.sib = NodeView(first.heap, first.graphs, first.pools,
                                                    first.nodes[Len(first.nodes)])]
    /\ g_ops' = g_ops + 1
    /\ UNCHANGED <<graph_edges, graph_edges0, next_column_id>>
    /\ UNCHANGED <<qvars, hvars, cvars, tvars, pvars, bvars>>

BranchNode(n, branches) ==
    /\ g_ops < MaxGraphOps
    /\ n >= Len(g_nodes) - 1
    /\ Branched(n, branches)

\* branch_node under rule 1, stopped in the pass of its first decision: the graph is
\* copied and updated, the pool is copied, and ImposedVertex.column_filter raises
\* AttributeError at `column.is_artificial` on the first column of the pool
\* (ColumnIndependentSet has is_artificial_column); no column is removed, no node made
BranchNodeFilterRaises(n, v) ==
    /\ g_ops < MaxGraphOps
    /\ n >= Len(g_nodes) - 1
    /\ LET gc == a_graph_copy(graphs, edge_heap, g_nodes[n].a_graph)
           up == a_graph_update(BranchRule1(v)[1], gc.graphs[gc.index], gc.heap,
                                next_vertex_id)
           pcopy == column_pool_copy(pools, g_nodes[n].column_pool)
       IN /\ edge_heap' = up.heap
          /\ graphs' = [gc.graphs EXCEPT ![gc.index] = up.graph]
          /\ pools' = pcopy.pools
    /\ g_last' = [Call("ImposedVertex.column_filter", n, v, v,
                       AllNodeViews(edge_heap, graphs, pools, g_nodes))
                      EXCEPT !.raised = TRUE]
    /\ g_ops' = g_ops + 1
    /\ UNCHANGED <<graph_edges, graph_edges0, next_vertex_id, g_nodes, next_column_id>>
    /\ UNCHANGED <<qvars, hvars, cvars, tvars, pvars, bvars>>

NodeNext ==
    \/ GenerateRootRaises
    \/ GenerateRoot
    \/ \E n \in 1 .. Len(g_nodes), v \in KnownIds : RemoveVertex(n, v)
    \/ \E n \in 1 .. Len(g_nodes), v \in KnownIds : RemoveOtherVerticesInPartition(n, v)
    \/ \E n \in 1 .. Len(g_nodes), v \in KnownIds, u \in KnownIds :
          v # u /\ SameColor(n, v, u)
    \/ \E n \in 1 .. Len(g_nodes), v \in KnownIds, u \in KnownIds :
          v # u /\ DifferentColor(n, v, u)
    \/ \E n \in 1 .. Len(g_nodes), S \in SUBSET KnownIds : AddPricedColumn(n, S)
    \/ \E n \in 1 .. Len(g_nodes), b \in Branchings : BranchNode(n, b)
    \/ \E n \in 1 .. Len(g_nodes), v \in Vertices : BranchNodeFilterRaises(n, v)

SpecNode == NodeInit /\ [][NodeNext]_vars

-----------------------------------------------------------------------------
(* A path of the tree: a node is priced, then branched by rule 2, and so is its child.
   The instance has three clusters of one vertex each. *)

TreeVertices == {0, 2, 4}

TreeEdgeLists ==
    {s \in UNION {[1 .. n -> {p \in TreeVertices \X TreeVertices : p[1] < p[2]}] :
                    n \in 0 .. MaxGraphEdges} :
        \A i, j \in 1 .. Len(s) : i < j => (s[i][1] < s[j][1] \/ (s[i][1] = s[j][1] /\ s[i][2] < s[j][2]))}

\* the state after generate_root_node: the auxiliary graph of the input (no two vertices
\* share a cluster, so its edges are the input's) and one artificial column for each
\* cluster
TreeInit ==
    /\ \E el \in TreeEdgeLists :
          /\ edge_heap = [i \in 1 .. Len(el) |-> [source |-> el[i][1], target |-> el[i][2]]]
          /\ graph_edges = <<>>
          /\ graph_edges0 = <<>>
          /\ graphs = <<[auxiliary_edges |-> [i \in 1 .. Len(el) |-> i],
                         vertices_map |-> SeqOfSet(TreeVertices),
                         merged_vertices_map |-> <<>>,
                         weight_v |-> [v \in TreeVertices |-> 0]]>>
    /\ pools = <<<<Column(<<0>>, TRUE, 1), Column(<<2>>, TRUE, 2), Column(<<4>>, TRUE, 3)>>>>
    /\ g_nodes = <<[a_graph |-> 1, column_pool |-> 1]>>
    /\ next_vertex_id = 5
    /\ next_column_id = 4
    /\ g_ops = 0
    /\ g_last = NoCall
    /\ QueueIdle
    /\ SolveIdle

\* the nodes solve can have in hand: the root, then the children made last
Leaf(n) == n \in 1 .. Len(g_nodes) /\ n >= Len(g_nodes) - 1

\* process_node on a leaf: pricing adds a column to the node's pool
PriceAtLeaf(n, S) ==
    /\ g_ops < MaxGraphOps + 2
    /\ Leaf(n)
    /\ PricedColumnAdded(n, S)

\* branch_node on a leaf by rule 2: the pair is of the node's vertices_map, in its
\* order, and a priced column of the node's pool holds both (gamma > 0)
BranchLeaf(n, v, u) ==
    /\ g_ops < MaxGraphOps + 2
    /\ Leaf(n)
    /\ \E i, j \in 1 .. Len(GraphOf(n).vertices_map) :
          i < j /\ GraphOf(n).vertices_map[i] = v /\ GraphOf(n).vertices_map[j] = u
    /\ \E k \in 1 .. Len(PoolOf(n)) :
          /\ ~PoolOf(n)[k].is_artificial_column
          /\ Contains(PoolOf(n)[k], v) /\ Contains(PoolOf(n)[k], u)
    /\ Branched(n, BranchRule2(v, u))

TreeNext ==
    \/ \E n \in 1 .. Len(g_nodes), S \in SUBSET KnownIds : PriceAtLeaf(n, S)
    \/ \E n \in 1 .. Len(g_nodes), v \in KnownIds, u \in KnownIds : BranchLeaf(n, v, u)

SpecTree == TreeInit /\ [][TreeNext]_vars


-----------------------------------------------------------------------------
(* Properties of the auxiliary graph, the pool and branch_node, checked under SpecNode *)

ViewOf(k) == NodeView(edge_heap, graphs, pools, g_nodes[k])

Endpoints(edges) == {Pair(edges[i]) : i \in 1 .. Len(edges)}

IsArtificial(c) == c.is_artificial_column

C4_InputGraphUnchanged ==
    /\ Len(graph_edges) = Len(graph_edges0)
    /\ \A i \in 1 .. Len(graph_edges) : edge_heap[graph_edges[i]] = graph_edges0[i]

C7_AuxiliaryConstruction ==
    g_last.op = "generate_root_node" =>
        /\ ~g_last.raised
        /\ LET edges == EdgeView(edge_heap, graphs[1])
           IN /\ \A v \in Vertices, u \in Vertices :
                    (v # u /\ PartitionOf(v) = PartitionOf(u)) => {v, u} \in Endpoints(edges)
              /\ Endpoints(graph_edges0) \subseteq Endpoints(edges)
              /\ \A i \in 1 .. Len(edges) : edges[i].source # edges[i].target
              /\ \A i, j \in 1 .. Len(edges) : i # j => Pair(edges[i]) # Pair(edges[j])

\* a vertex that is nowhere in the graph: not in vertices_map, not in weight_v, on no
\* edge, not a key of merged_vertices_map
Absent(g, heap, v) ==
    /\ v \notin Range(g.vertices_map)
    /\ v \notin DOMAIN g.weight_v
    /\ v \notin MergedKeys(g)
    /\ \A i \in 1 .. Len(g.auxiliary_edges) : v \notin Pair(heap[g.auxiliary_edges[i]])

\* C8 (idempotent removal): in every state of every auxiliary graph and for every
\* vertex v, original or merged, present or absent, remove_vertex(v) applied twice gives
\* the state that one remove_vertex(v) gives, and remove_vertex of an absent vertex
\* gives the state it was called on.
C8_RemoveVertexIdempotent ==
    \A k \in 1 .. Len(graphs) : \A v \in 0 .. next_vertex_id :
        LET once == remove_vertex(graphs[k], edge_heap, v)
        IN /\ remove_vertex(once, edge_heap, v) = once
           /\ Absent(graphs[k], edge_heap, v) => once = graphs[k]

\* the graphs that the last call made or changed: a graph is looked at in the state in
\* which it took its present value (after the first branching only the two newest
\* graphs change)
TouchedGraphs == {k \in 1 .. Len(graphs) : k >= Len(graphs) - 1}

\* C9 (different_color commutative, add-if-absent): in every state of every auxiliary
\* graph and for all vertices u, w, different_color(u, w) and different_color(w, u)
\* give the same set of unordered edges; when an edge joins u and w in either
\* orientation the edge list is left as it is, and otherwise exactly one edge on {u, w}
\* is appended.  The last different_color call made has done just that.
C9_DifferentColor ==
    /\ \A k \in TouchedGraphs : \A u \in KnownIds, w \in KnownIds :
          u <= w =>
             LET uw == different_color(graphs[k], edge_heap, u, w)
                 wu == different_color(graphs[k], edge_heap, w, u)
                 before == EdgeView(edge_heap, graphs[k])
                 after_uw == EdgeView(uw.heap, uw.graph)
                 after_wu == EdgeView(wu.heap, wu.graph)
             IN /\ Endpoints(after_uw) = Endpoints(after_wu)
                /\ IF {u, w} \in Endpoints(before)
                   THEN after_uw = before /\ after_wu = before
                   ELSE /\ after_uw = Append(before, [source |-> u, target |-> w])
                        /\ after_wu = Append(before, [source |-> w, target |-> u])
    /\ g_last.op = "different_color" =>
          LET before == g_last.pre.edges
              after == EdgeView(edge_heap, graphs[g_nodes[g_last.node].a_graph])
          IN IF {g_last.v, g_last.u} \in Endpoints(before) THEN after = before
             ELSE after = Append(before, [source |-> g_last.v, target |-> g_last.u])

\* different_color(v, u) called on a graph that holds the edge as (u, v), the other
\* orientation only, and the edge list is as it was
C9_Witness ==
    /\ g_last.op = "different_color"
    /\ \E i \in 1 .. Len(g_last.pre.edges) :
          g_last.pre.edges[i] = [source |-> g_last.u, target |-> g_last.v]
    /\ \A i \in 1 .. Len(g_last.pre.edges) :
          g_last.pre.edges[i] # [source |-> g_last.v, target |-> g_last.u]
    /\ EdgeView(edge_heap, graphs[g_nodes[g_last.node].a_graph]) = g_last.pre.edges


-----------------------------------------------------------------------------
(* The node queue of BranchAndPrice: heapq on self.node_queue, BPCNode.__lt__ *)

\* an input graph and a node that are not used
GraphIdle ==
    /\ edge_heap = <<>>
    /\ graph_edges = <<>>
    /\ graph_edges0 = <<>>
    /\ graphs = <<>>
    /\ pools = <<>>
    /\ g_nodes = <<>>
    /\ next_vertex_id = Cardinality(Vertices)
    /\ next_column_id = 1
    /\ g_ops = 0
    /\ g_last = NoCall

\* the reverse comparison, against which BPCNode.__lt__ is set
NodeGt(a, b) == a.objective_value > b.objective_value

\* BPCNode.__lt__: self.objective_value < other.objective_value
NodeLt(a, b) == a.objective_value < b.objective_value

\* heapq._siftdown(heap, startpos, pos); positions count from 0, heap[pos] is heap[pos + 1]
RECURSIVE SiftDownLoop(_, _, _, _)
SiftDownLoop(heap, startpos, pos, newitem) ==
    IF pos > startpos
    THEN LET parentpos == (pos - 1) \div 2
             parent == heap[parentpos + 1]
         IN IF NodeLt(newitem, parent)
            THEN SiftDownLoop([heap EXCEPT ![pos + 1] = parent], startpos, parentpos, newitem)
            ELSE [heap EXCEPT ![pos + 1] = newitem]
    ELSE [heap EXCEPT ![pos + 1] = newitem]

siftdown(heap, startpos, pos) == SiftDownLoop(heap, startpos, pos, heap[pos + 1])

\* heapq._siftup(heap, pos): the smaller child moves up until a leaf is reached, then
\* the item is sifted down from there
RECURSIVE SiftUpLoop(_, _, _)
SiftUpLoop(heap, pos, childpos) ==
    IF childpos < Len(heap)
    THEN LET rightpos == childpos + 1
             c == IF rightpos < Len(heap) /\ ~NodeLt(heap[childpos + 1], heap[rightpos + 1])
                  THEN rightpos ELSE childpos
         IN SiftUpLoop([heap EXCEPT ![pos + 1] = heap[c + 1]], c, 2 * c + 1)
    ELSE [heap |-> heap, pos |-> pos]

siftup(heap, pos) ==
    LET r == SiftUpLoop(heap, pos, 2 * pos + 1)
    IN SiftDownLoop(r.heap, pos, r.pos, heap[pos + 1])

heappush(heap, item) == siftdown(Append(heap, item), 0, Len(heap))

\* heapq.heappop of a non-empty heap: [item, heap]
heappop(heap) ==
    LET lastelt == heap[Len(heap)]
        rest == SubSeq(heap, 1, Len(heap) - 1)
    IN IF rest # <<>>
       THEN [item |-> rest[1], heap |-> siftup([rest EXCEPT ![1] = lastelt], 0)]
       ELSE [item |-> lastelt, heap |-> rest]

\* heapq.heapify: for i in reversed(range(n // 2)): _siftup(x, i)
RECURSIVE HeapifyLoop(_, _)
HeapifyLoop(x, i) == IF i < 0 THEN x ELSE HeapifyLoop(siftup(x, i), i - 1)

heapify(x) == HeapifyLoop(x, (Len(x) \div 2) - 1)

\* add_node: heappush; the caller counts nodes_created
add_node(queue, node) == heappush(queue, node)

\* get_next_node: heappop when the queue is not empty, else None
get_next_node(queue) ==
    IF queue # <<>> THEN heappop(queue) ELSE [item |-> NoNode, heap |-> queue]

\* the objective values a node is queued with: -inf (the root) or a master objective
QueuedObjectives == {NegInf} \cup (2 .. MaxObjective)

QueueInit ==
    /\ QueueIdle
    /\ GraphIdle
    /\ SolveIdle

AddNode(objective_value) ==
    /\ q_ops < MaxQueueOps
    /\ LET node == Node(next_nodeid, objective_value, "empty", 0, 0, 0)
       IN /\ node_queue' = add_node(node_queue, node)
          /\ q_last' = [op |-> "add_node", pre |-> node_queue, result |-> node]
    /\ nodes_created' = nodes_created + 1
    /\ next_nodeid' = next_nodeid + 1
    /\ q_ops' = q_ops + 1
    /\ q_drain' = <<>>
    /\ UNCHANGED <<tvars, pvars, bvars, gvars, cvars, tvars, pvars, bvars>>

GetNextNode ==
    /\ q_ops < MaxQueueOps
    /\ LET r == get_next_node(node_queue)
       IN /\ node_queue' = r.heap
          /\ q_last' = [op |-> "get_next_node", pre |-> node_queue, result |-> r.item]
          /\ q_drain' = IF r.item = NoNode THEN q_drain
                        ELSE Append(q_drain, r.item.objective_value)
    /\ q_ops' = q_ops + 1
    /\ UNCHANGED <<nodes_created, next_nodeid, gvars, cvars, tvars, pvars, bvars>>

QueueNext ==
    \/ \E objective_value \in QueuedObjectives : AddNode(objective_value)
    \/ GetNextNode

SpecQueue == QueueInit /\ [][QueueNext]_vars

\* C2 (queue order): get_next_node on an empty queue returns None and leaves it empty;
\* on a non-empty queue it returns one of the queued nodes, whose objective_value no
\* queued node undercuts, and the queue keeps exactly the other nodes; the objective
\* values of the nodes returned one after another, with no add_node between, never
\* decrease.
C2_QueueOrder ==
    /\ q_last.op = "get_next_node" =>
          IF q_last.pre = <<>>
          THEN q_last.result = NoNode /\ node_queue = <<>>
          ELSE /\ q_last.result \in Range(q_last.pre)
               /\ \A i \in 1 .. Len(q_last.pre) :
                     q_last.result.objective_value <= q_last.pre[i].objective_value
               /\ Range(node_queue) = Range(q_last.pre) \ {q_last.result}
               /\ Len(node_queue) = Len(q_last.pre) - 1
    /\ \A i, j \in 1 .. Len(q_drain) : i < j => q_drain[i] <= q_drain[j]

\* three nodes drained in a row, of rising objective values, the last of them taken
\* from a queue of one and added before a node of smaller objective value
C2_Witness ==
    /\ q_last.op = "get_next_node"
    /\ Len(q_drain) = 3
    /\ q_drain[1] < q_drain[2] /\ q_drain[2] < q_drain[3]
    /\ Len(q_last.pre) = 1
    /\ q_last.result.nodeid < nodes_created


-----------------------------------------------------------------------------
(* Column generation on a node: src/cg/column_generation.py *)

\* math.ceil of an objective value counted in halves
Ceil(h) == 2 * ((h + 1) \div 2)

\* objective values of master solutions that use no artificial column, and those of
\* colourings (whole numbers of colours)
RealObjectives == 2 .. MaxObjective

IntegerObjectives == {h \in RealObjectives : h % 2 = 0}

\* a termination test without the test on the upper bound, against which
\* check_termination is set
check_termination_converged_only(masterObjective, upper_bound) == masterObjective = 0

\* check_termination, with config.epsilon below the resolution of the objective values
\* and self.lower_bound = 0.0: ceil(masterObjective - epsilon) >= upper_bound, or
\* abs(masterObjective - lower_bound) < epsilon
check_termination(masterObjective, upper_bound) ==
    \/ Ceil(masterObjective) >= upper_bound
    \/ masterObjective = 0

\* the kinds of solution solveMaster can return with objective z on node n: with z at
\* the artificial cost the solution uses an artificial column; a solution of 0/1 values
\* is a colouring of n's subtree, so z is a whole number not below n.opt
MasterSolutions(n, z) ==
    IF z = ArtificialCost THEN {"artificial"}
    ELSE {"fractional"} \cup (IF z \in IntegerObjectives /\ z >= n.opt THEN {"integer"} ELSE {})

\* what the solvers can answer during one column generation on node n: the master
\* objectives zs[1] >= zs[2] >= ... of the successive restricted masters, none below the
\* relaxation value n.lp, and the solution of each; pricing returns columns after every
\* master solve but the last.  After the last it returns [] either because no column
\* prices out (the last master is the relaxation of n: zs = n.lp) or because it ran into
\* the time limit with no solution in its pool (generate_columns returns [] then too).
MasterValues(n) == {z \in RealObjectives \cup {ArtificialCost} : z >= n.lp}

CGScenarios(n) ==
    {sc \in [zs : UNION {[1 .. k -> MasterValues(n)] : k \in 1 .. MaxMasterSolves},
             last_solution : {"fractional", "integer", "artificial"},
             priced_out : BOOLEAN] :
        /\ \A i \in 1 .. (Len(sc.zs) - 1) : sc.zs[i] >= sc.zs[i + 1]
        /\ sc.last_solution \in MasterSolutions(n, sc.zs[Len(sc.zs)])
        /\ sc.priced_out => sc.zs[Len(sc.zs)] = n.lp
        /\ n.depth >= MaxDepth => sc.last_solution # "fractional"}

\* ColumnGeneration.solve, the while loop: self.iteration += 1; invokeMaster; if
\* check_termination(): break; invokePricing; foundNewColumn = len(new_columns) > 0.
\* st = [iteration, master_calls, pricing_calls, masterObjective, foundNewColumn,
\* terminated].  The master of iteration i answers sc.zs[i]; pricing returns columns
\* in every iteration but the last of the scenario.
\* dual, weight_v and objective name the master solve (its iteration) whose duals
\* self.dual, the graph's weight_v and the objective of the pricing model hold; 0 is
\* what the constructors leave ([] and the weights 0.0); priced_with lists, for each
\* pricing solve, the master solve its objective came from.
CGStart ==
    [iteration |-> 0, master_calls |-> 0, pricing_calls |-> 0, masterObjective |-> 0,
     foundNewColumn |-> TRUE, terminated |-> FALSE, trace |-> <<>>,
     dual |-> 0, weight_v |-> 0, objective |-> 0, priced_with |-> <<>>]

\* PricingProblem.update_pricing_problem(dual): the pricing problem takes the duals and
\* the weights of its auxiliary graph are updated from them
update_pricing_problem(st, dual) == [st EXCEPT !.weight_v = dual]

\* ExactPricingSolver.set_objective: the objective is built from weight_v as it is now
set_objective(st) == [st EXCEPT !.objective = st.weight_v]

\* a generate_columns that solves with the objective build_model gave the model,
\* against which the set_objective call of generate_columns is set
generate_columns_keep_objective(st) ==
    [st EXCEPT !.priced_with = Append(@, st.objective)]

\* ExactPricingSolver.generate_columns: self.set_objective(); self.solve(time_end)
generate_columns(st) ==
    LET o == set_objective(st)
    IN [o EXCEPT !.priced_with = Append(@, o.objective)]

\* ColumnGeneration.invokePricing(time_end, self.dual)
invokePricing(st) == generate_columns(update_pricing_problem(st, st.dual))

\* a loop that takes the last master's columns as final without asking pricing,
\* against which the loop of ColumnGeneration.solve is set
RECURSIVE CGLoopNoLastPricing(_, _, _)
CGLoopNoLastPricing(sc, upper_bound, st) ==
    IF ~st.foundNewColumn THEN st
    ELSE LET i == st.iteration + 1
             m == [st EXCEPT !.iteration = i, !.master_calls = @ + 1,
                             !.masterObjective = sc.zs[i], !.dual = i,
                             !.trace = Append(@, "master")]
         IN IF check_termination(m.masterObjective, upper_bound)
            THEN [m EXCEPT !.terminated = TRUE]
            ELSE IF i = Len(sc.zs) THEN [m EXCEPT !.foundNewColumn = FALSE]
            ELSE CGLoopNoLastPricing(sc, upper_bound,
                                     invokePricing([m EXCEPT !.pricing_calls = @ + 1,
                                                             !.trace = Append(@, "pricing")]))

RECURSIVE CGLoop(_, _, _)
CGLoop(sc, upper_bound, st) ==
    IF ~st.foundNewColumn THEN st
    ELSE LET i == st.iteration + 1
             m == [st EXCEPT !.iteration = i, !.master_calls = @ + 1,
                             !.masterObjective = sc.zs[i], !.dual = i,
                             !.trace = Append(@, "master")]
         IN IF check_termination(m.masterObjective, upper_bound)
            THEN [m EXCEPT !.terminated = TRUE]
            ELSE CGLoop(sc, upper_bound,
                        invokePricing([m EXCEPT !.pricing_calls = @ + 1,
                                                !.foundNewColumn = (i < Len(sc.zs)),
                                                !.trace = Append(@, "pricing")]))

\* ColumnGeneration.solve: returns (self.master.solution, self.masterObjective), those of
\* the last master solved.  pricing_timed_out: the loop ended on the [] that
\* generate_columns returns when its model stops on the time limit with no solution.
column_generation_solve(n, sc, upper_bound) ==
    LET r == CGLoop(sc, upper_bound, CGStart)
    IN [objective_value |-> r.masterObjective,
        solution |-> IF r.iteration = Len(sc.zs) THEN sc.last_solution
                     ELSE IF r.masterObjective = ArtificialCost THEN "artificial"
                     ELSE "fractional",
        iteration |-> r.iteration,
        master_calls |-> r.master_calls,
        pricing_calls |-> r.pricing_calls,
        terminated |-> r.terminated,
        trace |-> r.trace,
        priced_with |-> r.priced_with,
        pricing_timed_out |-> ~r.terminated /\ ~sc.priced_out]

-----------------------------------------------------------------------------
(* BranchAndPrice: the methods solve calls, src/bpc/branch_and_price.py *)

\* is_prunable_node for a finite objective_value: math.ceil(objective_value) >= best_objective
is_prunable_node(node, best) == Ceil(node.objective_value) >= best

\* a test that only looks for the empty solution, against which is_infeasible_solution
\* is set
is_infeasible_solution_empty_only(node) == node.solution = "empty"

\* is_infeasible_solution: the solution is empty or holds an artificial column
is_infeasible_solution(node) == node.solution \in {"empty", "artificial"}

\* a test without the loop over the values, against which is_integer_solution is set
is_integer_solution_nonempty(solution) == solution # "empty"

\* is_integer_solution: not empty and every value within 1e-6 of 0 or 1
is_integer_solution(solution) == solution = "integer"

\* the while loop of prune_nodes: the nodes in the order heappop gives them, those with
\* objective_value < best_objective kept
RECURSIVE PruneLoop(_, _, _)
PruneLoop(queue, best, remaining_nodes) ==
    IF queue = <<>> THEN remaining_nodes
    ELSE LET r == heappop(queue)
         IN PruneLoop(r.heap, best,
                      IF r.item.objective_value < best THEN Append(remaining_nodes, r.item)
                      ELSE remaining_nodes)

\* a pruning that keeps the nodes whose objective_value equals best_objective, against
\* which the strict test of prune_nodes is set
prune_nodes_keep_ties(queue, best) ==
    LET Keep(n) == n.objective_value <= best
    IN [queue |-> heapify(SelectSeq(queue, Keep)),
        pruned_count |-> Len(queue) - Len(SelectSeq(queue, Keep))]

\* prune_nodes: [queue, pruned_count]
prune_nodes(queue, best) ==
    IF best = PosInf THEN [queue |-> queue, pruned_count |-> 0]
    ELSE LET remaining_nodes == PruneLoop(queue, best, <<>>)
         IN [queue |-> heapify(remaining_nodes),
             pruned_count |-> Len(queue) - Len(remaining_nodes)]

\* an update that also takes an objective equal to the incumbent's, against which the
\* strict test of update_best_solution is set
update_best_solution_on_tie(b, objective_value, solution) ==
    IF objective_value <= b.best_objective
    THEN [best_objective |-> objective_value, best_solution |-> solution,
          node_queue |-> prune_nodes(b.node_queue, objective_value).queue,
          nodes_pruned |-> b.nodes_pruned + prune_nodes(b.node_queue, objective_value).pruned_count,
          returned |-> TRUE]
    ELSE [b EXCEPT !.returned = FALSE]

\* update_best_solution on b = [best_objective, best_solution, node_queue, nodes_pruned,
\* returned]: a strictly smaller objective replaces the incumbent and prunes the queue
update_best_solution(b, objective_value, solution) ==
    IF objective_value < b.best_objective
    THEN LET p == prune_nodes(b.node_queue, objective_value)
         IN [best_objective |-> objective_value, best_solution |-> solution,
             node_queue |-> p.queue, nodes_pruned |-> b.nodes_pruned + p.pruned_count,
             returned |-> TRUE]
    ELSE [b EXCEPT !.returned = FALSE]

\* an update that sets the flag and leaves the bound as it was, against which
\* update_global_lower_bound is set
update_global_lower_bound_stale(queue, best, lower_bound) ==
    [optimal |-> Len(queue) = 0, global_lower_bound |-> lower_bound]

\* update_global_lower_bound: [optimal, global_lower_bound]
Min(S) == CHOOSE x \in S : \A y \in S : x <= y

update_global_lower_bound(queue, best, lower_bound) ==
    IF Len(queue) = 0 THEN [optimal |-> TRUE, global_lower_bound |-> best]
    ELSE [optimal |-> FALSE,
          global_lower_bound |-> Min({queue[i].objective_value : i \in 1 .. Len(queue)})]

\* "status" of the dictionary solve returns from its try block
ReturnStatus(solution) == IF solution # NoSolution THEN "optimal" ELSE "no_solution"

\* the two children branch_node makes of a node: each inherits the node's
\* objective_value and solution.  The two decisions split the colourings of the node's
\* subtree, so the better of the children's optima is the node's; a child's relaxation
\* is not below the node's, and is at the artificial cost when the child has no colouring.
ChildOptima(n) ==
    {o \in (IntegerObjectives \cup {PosInf}) \X (IntegerObjectives \cup {PosInf}) :
        /\ o[1] >= n.opt /\ o[2] >= n.opt
        /\ o[1] = n.opt \/ o[2] = n.opt}

ChildRelaxations(n, opt) ==
    IF opt = PosInf THEN {ArtificialCost}
    ELSE IF n.depth + 1 >= MaxDepth THEN {opt}
    ELSE {h \in RealObjectives : n.lp <= h /\ h <= opt}

Child(n, id, lp, opt) == Node(id, n.objective_value, n.solution, lp, opt, n.depth + 1)

-----------------------------------------------------------------------------
(* BranchAndPrice.solve: src/bpc/branch_and_price.py, lines 56-158 *)

Step(op) == [NoStep EXCEPT !.op = op]

SolveInit ==
    /\ GraphIdle
    /\ QueueIdle
    /\ pc = "start"
    /\ current_node = NoNode
    /\ best_objective = PosInf
    /\ best_solution = NoSolution
    /\ global_lower_bound = NegInf
    /\ optimal = FALSE
    /\ nodes_processed = 0
    /\ nodes_pruned = 0
    /\ status = "none"
    /\ true_optimum \in IntegerObjectives
    /\ c_last = NoStep
    /\ past_deadline = FALSE
    /\ PoolIdle
    /\ BranchIdle

\* time passes while solve runs: time.time() goes past time_end = start_time +
\* self.time_limit.  solve computes time_end (line 65) and hands it to process_node; it
\* compares the clock with it nowhere.
DeadlinePasses ==
    /\ pc \notin {"done", "raised"}
    /\ ~past_deadline
    /\ past_deadline' = TRUE
    /\ UNCHANGED <<gvars, qvars, hvars, cvars, pvars, bvars>>

\* generate_root_node raises (AuxiliaryGraph.__init__): it is called before the try
\* block, the exception leaves solve
SolveRootRaises ==
    /\ pc = "start"
    /\ pc' = "raised"
    /\ c_last' = Step("generate_root_node")
    /\ UNCHANGED <<tvars, pvars, bvars, gvars, qvars, hvars, current_node, best_objective, best_solution,
                   global_lower_bound, optimal, nodes_processed, nodes_pruned, status,
                   true_optimum>>

\* root_node = self.generate_root_node(); self.add_node(root_node)
SolveStart ==
    /\ pc = "start"
    /\ \E lp \in {h \in RealObjectives : h <= true_optimum} :
          node_queue' = add_node(node_queue, Node(next_nodeid, NegInf, "empty", lp, true_optimum, 0))
    /\ nodes_created' = nodes_created + 1
    /\ next_nodeid' = next_nodeid + 1
    /\ pc' = "loop"
    /\ c_last' = Step("add_node")
    /\ UNCHANGED <<tvars, pvars, bvars, gvars, hvars, current_node, best_objective, best_solution,
                   global_lower_bound, optimal, nodes_processed, nodes_pruned, status,
                   true_optimum>>

\* while not self.is_queue_empty(): current_node = self.get_next_node(); nodes_processed += 1
PopNode ==
    /\ pc = "loop"
    /\ node_queue # <<>>
    /\ LET r == get_next_node(node_queue)
       IN /\ current_node' = r.item
          /\ node_queue' = r.heap
    /\ nodes_processed' = nodes_processed + 1
    /\ pc' = "prune_check_1"
    /\ c_last' = Step("get_next_node")
    /\ UNCHANGED <<tvars, pvars, bvars, gvars, hvars, nodes_created, next_nodeid, best_objective, best_solution,
                   global_lower_bound, optimal, nodes_pruned, status, true_optimum>>

\* the loop condition fails: the queue is empty
LoopExit ==
    /\ pc = "loop"
    /\ node_queue = <<>>
    /\ pc' = "finish"
    /\ c_last' = Step("is_queue_empty")
    /\ UNCHANGED <<tvars, pvars, bvars, gvars, qvars, hvars, current_node, best_objective, best_solution,
                   global_lower_bound, optimal, nodes_processed, nodes_pruned, status,
                   true_optimum>>

\* an exception inside the try block: solve returns status "error"
Raise(op) ==
    /\ status' = "error"
    /\ pc' = "done"
    /\ c_last' = Step(op)
    /\ UNCHANGED <<tvars, pvars, bvars, gvars, qvars, hvars, current_node, best_objective, best_solution,
                   global_lower_bound, optimal, nodes_processed, nodes_pruned, true_optimum>>

\* is_prunable_node on a node of infinite objective_value (the root): math.ceil raises
\* OverflowError
PruneCheckRaises ==
    /\ pc \in {"prune_check_1", "prune_check_2"}
    /\ current_node.objective_value \in {NegInf, PosInf}
    /\ Raise("is_prunable_node")

\* if self.is_prunable_node(current_node): continue -- before and after process_node.
\* For the root's -inf the comparison the code goes on to assume: -inf >= best is false.
PruneCheck ==
    /\ pc \in {"prune_check_1", "prune_check_2"}
    /\ LET prunable == /\ current_node.objective_value \notin {NegInf, PosInf}
                       /\ is_prunable_node(current_node, best_objective)
       IN /\ nodes_pruned' = IF prunable THEN nodes_pruned + 1 ELSE nodes_pruned
          /\ pc' = IF prunable THEN "loop"
                   ELSE IF pc = "prune_check_1" THEN "process_node" ELSE "classify"
          /\ c_last' = [Step("is_prunable_node") EXCEPT !.returned = prunable]
    /\ UNCHANGED <<tvars, pvars, bvars, gvars, qvars, hvars, current_node, best_objective, best_solution,
                   global_lower_bound, optimal, nodes_processed, status, true_optimum>>

\* process_node: column_generation.solve returns; the node takes its solution and
\* its master objective
ProcessNode ==
    /\ pc = "process_node"
    /\ \E sc \in CGScenarios(current_node) :
          LET r == column_generation_solve(current_node, sc, best_objective)
          IN /\ current_node' = [current_node EXCEPT !.objective_value = r.objective_value,
                                                     !.solution = r.solution,
                                                     !.priced_rounds = @ + r.iteration - 1]
             /\ c_last' = [Step("process_node") EXCEPT
                              !.pricing_timed_out = r.pricing_timed_out,
                              !.cg = [zs |-> sc.zs, upper_bound |-> best_objective,
                                      iteration |-> r.iteration,
                                      master_calls |-> r.master_calls,
                                      pricing_calls |-> r.pricing_calls,
                                      terminated |-> r.terminated,
                                      trace |-> r.trace,
                                      priced_with |-> r.priced_with]]
    /\ pc' = "prune_check_2"
    /\ UNCHANGED <<tvars, pvars, bvars, gvars, qvars, hvars, best_objective, best_solution, global_lower_bound,
                   optimal, nodes_processed, nodes_pruned, status, true_optimum>>

\* the rounds of column generation that can be complete when a solver call raises: a
\* further round is begun only after a master objective on which check_termination
\* did not fire
RoundsBeforeRaise(node, upper_bound) ==
    {k \in 0 .. (MaxMasterSolves - 1) :
        k > 0 => \E z \in MasterValues(node) : ~check_termination(z, upper_bound)}

\* a handler that puts the node back and goes on with the loop, against which the
\* break of solve is set
ProcessNodeTimeoutContinues ==
    /\ pc = "process_node"
    /\ nodes_pruned' = nodes_pruned + 1
    /\ node_queue' = add_node(node_queue, current_node)
    /\ nodes_created' = nodes_created + 1
    /\ pc' = "loop"
    /\ c_last' = Step("process_node_timeout")
    /\ UNCHANGED <<tvars, pvars, bvars, gvars, hvars, next_nodeid, current_node, best_objective, best_solution,
                   global_lower_bound, optimal, nodes_processed, status, true_optimum>>

\* process_node: a solver raises GurobiError with errno 10001; process_node counts the
\* node as pruned and returns False, solve puts the node back and leaves the loop.
\* The assignment to current_node.solution / objective_value is not reached; the
\* columns of the rounds completed before the raise are in the node's pool.
ProcessNodeTimeout ==
    /\ pc = "process_node"
    /\ nodes_pruned' = nodes_pruned + 1
    /\ \E k \in RoundsBeforeRaise(current_node, best_objective) :
          /\ current_node' = [current_node EXCEPT !.priced_rounds = @ + k]
          /\ node_queue' = add_node(node_queue, current_node')
    /\ nodes_created' = nodes_created + 1
    /\ pc' = "finish"
    /\ c_last' = Step("process_node_timeout")
    /\ UNCHANGED <<tvars, pvars, bvars, gvars, hvars, next_nodeid, best_objective, best_solution,
                   global_lower_bound, optimal, nodes_processed, status, true_optimum>>

\* process_node: a solver raises anything else (GurobiError of another errno, as
\* solveMaster raises for an infeasible master or a time limit without solution;
\* RuntimeError), which process_node raises again
ProcessNodeRaises ==
    /\ pc = "process_node"
    /\ Raise("process_node")

\* if self.is_infeasible_solution(current_node): nodes_pruned += 1; continue
PruneInfeasible ==
    /\ pc = "classify"
    /\ is_infeasible_solution(current_node)
    /\ nodes_pruned' = nodes_pruned + 1
    /\ pc' = "loop"
    /\ c_last' = Step("is_infeasible_solution")
    /\ UNCHANGED <<tvars, pvars, bvars, gvars, qvars, hvars, current_node, best_objective, best_solution,
                   global_lower_bound, optimal, nodes_processed, status, true_optimum>>

\* if self.is_integer_solution(...): self.update_best_solution(...); continue
RecordInteger ==
    /\ pc = "classify"
    /\ ~is_infeasible_solution(current_node)
    /\ is_integer_solution(current_node.solution)
    /\ LET r == update_best_solution(
                    [best_objective |-> best_objective, best_solution |-> best_solution,
                     node_queue |-> node_queue, nodes_pruned |-> nodes_pruned,
                     returned |-> FALSE],
                    current_node.objective_value,
                    [kind |-> current_node.solution, nodeid |-> current_node.nodeid])
       IN /\ best_objective' = r.best_objective
          /\ best_solution' = r.best_solution
          /\ node_queue' = r.node_queue
          /\ nodes_pruned' = r.nodes_pruned
          /\ c_last' = [Step("update_best_solution") EXCEPT
                              !.objective_value = current_node.objective_value,
                              !.before = best_objective,
                              !.before_solution = best_solution,
                              !.returned = r.returned]
    /\ pc' = "loop"
    /\ UNCHANGED <<tvars, pvars, bvars, gvars, hvars, nodes_created, next_nodeid, current_node,
                   global_lower_bound, optimal, nodes_processed, status, true_optimum>>

\* else: self.branch_node(current_node) -- two children are added
SolveBranch ==
    /\ pc = "classify"
    /\ ~is_infeasible_solution(current_node)
    /\ ~is_integer_solution(current_node.solution)
    /\ current_node.depth < MaxDepth
    /\ \E o \in ChildOptima(current_node) :
          \E lp1 \in ChildRelaxations(current_node, o[1]),
             lp2 \in ChildRelaxations(current_node, o[2]) :
             node_queue' = add_node(add_node(node_queue,
                                             Child(current_node, next_nodeid, lp1, o[1])),
                                    Child(current_node, next_nodeid + 1, lp2, o[2]))
    /\ nodes_created' = nodes_created + 2
    /\ next_nodeid' = next_nodeid + 2
    /\ pc' = "loop"
    /\ c_last' = Step("branch_node")
    /\ UNCHANGED <<tvars, pvars, bvars, gvars, hvars, current_node, best_objective, best_solution,
                   global_lower_bound, optimal, nodes_processed, nodes_pruned, status,
                   true_optimum>>

\* branch_node raises: create_branch returns None when neither rule finds a branching
\* and len(branches) raises TypeError
SolveBranchRaises ==
    /\ pc = "classify"
    /\ ~is_infeasible_solution(current_node)
    /\ ~is_integer_solution(current_node.solution)
    /\ Raise("branch_node")

\* after the loop: update_global_lower_bound, and the dictionary returned
Finish ==
    /\ pc = "finish"
    /\ LET r == update_global_lower_bound(node_queue, best_objective, global_lower_bound)
       IN /\ optimal' = r.optimal
          /\ global_lower_bound' = r.global_lower_bound
    /\ status' = ReturnStatus(best_solution)
    /\ pc' = "done"
    /\ c_last' = Step("update_global_lower_bound")
    /\ UNCHANGED <<tvars, pvars, bvars, gvars, qvars, hvars, current_node, best_objective, best_solution,
                   nodes_processed, nodes_pruned, true_optimum>>

Next ==
    \/ DeadlinePasses
    \/ SolveRootRaises
    \/ SolveStart
    \/ PopNode
    \/ LoopExit
    \/ PruneCheckRaises
    \/ PruneCheck
    \/ ProcessNode
    \/ ProcessNodeTimeout
    \/ ProcessNodeRaises
    \/ PruneInfeasible
    \/ RecordInteger
    \/ SolveBranch
    \/ SolveBranchRaises
    \/ Finish

Spec == SolveInit /\ [][Next]_vars

-----------------------------------------------------------------------------
(* Properties of solve, checked under Spec *)

\* C1 (lower-bound soundness): at every moment of solve, the final result included,
\* global_lower_bound <= the optimum of the instance <= best_objective, with nodes
\* pruned on the master objective at which their column generation stopped.
C1_LowerBoundSound ==
    /\ global_lower_bound <= true_optimum
    /\ true_optimum <= best_objective

\* update_best_solution applied to the present incumbent and queue with objective h
IncumbentAfter(h) ==
    update_best_solution([best_objective |-> best_objective, best_solution |-> best_solution,
                          node_queue |-> node_queue, nodes_pruned |-> nodes_pruned,
                          returned |-> FALSE],
                         h, [kind |-> "integer", nodeid |-> next_nodeid])

\* C5 (monotone incumbent): no step of solve raises best_objective; best_objective and
\* best_solution change only in an update_best_solution whose objective is strictly
\* below the incumbent's, which then is the new best_objective; and in every state, for
\* every objective value, update_best_solution takes a strictly smaller objective and
\* returns True, and on any other leaves best_objective and best_solution as they are
\* and returns False.
C5_MonotoneIncumbent ==
    /\ [][/\ best_objective' <= best_objective
          /\ (best_objective' # best_objective \/ best_solution' # best_solution) =>
                /\ c_last'.op = "update_best_solution"
                /\ c_last'.objective_value < best_objective
                /\ best_objective' = c_last'.objective_value
                /\ c_last'.returned]_vars
    /\ [](\A h \in RealObjectives \cup {ArtificialCost} :
            IF h < best_objective
            THEN /\ IncumbentAfter(h).best_objective = h
                 /\ IncumbentAfter(h).best_solution.nodeid = next_nodeid
                 /\ IncumbentAfter(h).returned
            ELSE /\ IncumbentAfter(h).best_objective = best_objective
                 /\ IncumbentAfter(h).best_solution = best_solution
                 /\ ~IncumbentAfter(h).returned)

\* update_best_solution has replaced an incumbent by a strictly better one
C5_Witness ==
    /\ c_last.op = "update_best_solution"
    /\ c_last.before \in RealObjectives
    /\ c_last.before_solution # NoSolution
    /\ best_objective < c_last.before
    /\ c_last.returned

\* C10 (status of a run cut short): when solve returns with nodes still in the queue,
\* the status is not "optimal": it is "feasible" when there is an incumbent and
\* "no_solution" when there is none.
C10_StatusWhenCutShort ==
    (pc = "done" /\ status # "error" /\ node_queue # <<>>) =>
        status = (IF best_solution # NoSolution THEN "feasible" ELSE "no_solution")


Requeued == {i \in 1 .. Len(node_queue') : node_queue'[i].nodeid = current_node.nodeid}

C13_PricingTimeoutReported ==
    c_last.pricing_timed_out =>
        /\ c_last.op = "process_node_timeout"
        /\ \E i \in 1 .. Len(node_queue) : node_queue[i].nodeid = current_node.nodeid

\* C14 (solver errors below the root): a solver error raised while a node below the
\* root is processed does not end the run: the node is pruned and the loop goes on;
\* the run ends with status "error" on a solver error only at the root.
C14_SolverErrorPrunesSubtree ==
    /\ [][(pc = "process_node" /\ current_node.depth > 0) =>
             (status' # "error" /\ pc' # "done")]_vars
    /\ []((pc = "done" /\ status = "error" /\ c_last.op = "process_node") =>
             current_node.depth = 0)


\* C15 (deadline in the main loop): a node is popped only while the deadline has not
\* been reached: once the clock is past time_end, no node is popped any more.
C15_NoPopPastDeadline ==
    [][past_deadline => nodes_processed' = nodes_processed]_vars


\* the pool of the node that the last branch_node branched, as it was before the call
ParentPool == g_last.pre[g_last.node].column_pool

\* the pools of the two children that the last branch_node made
ChildPool(b) == ViewOf(Len(g_last.pre) + b).column_pool

KeptByImpose(P, vertex) ==
    {c \in Range(P) :
        \/ c.is_artificial_column
        \/ \A w \in Range(PartitionVertexList(PartitionOf(vertex))) :
              w # vertex => ~Contains(c, w)}

KeptByForbid(P, vertex) == {c \in Range(P) : c.is_artificial_column \/ ~Contains(c, vertex)}

\* C24 (rule A children): after ImposedVertex(v).column_filter the pool holds exactly
\* the parent's artificial columns and the parent's priced columns with no vertex of
\* v's cluster other than v; after ForbidVertex(v).column_filter it holds exactly the
\* artificial columns and the priced columns without v.
C24_RuleAFilters ==
    /\ (g_last.op = "branch_node" /\ g_last.v = g_last.u) =>
          /\ Range(ChildPool(1)) = KeptByImpose(ParentPool, g_last.v)
          /\ Range(ChildPool(2)) = KeptByForbid(ParentPool, g_last.v)
    /\ g_last.op = "ImposedVertex.column_filter" =>
          Range(pools[Len(pools)]) = KeptByImpose(ParentPool, g_last.v)

ConstituentsBefore(x) ==
    LET mm == g_last.pre.merged_vertices_map
    IN IF \E i \in 1 .. Len(mm) : mm[i].key = x
       THEN UNION {Range(mm[i].list) : i \in {j \in 1 .. Len(mm) : mm[j].key = x}}
       ELSE {x}

\* C26 (merged lists are flat): after any sequence of same_color calls, also on merged
\* vertices, every constituent list of merged_vertices_map holds original vertices
\* only, and the list of the vertex z that the last same_color(u, w) made holds every
\* original constituent of u and of w.
C26_MergedListsFlat ==
    /\ \A k \in 1 .. Len(graphs) : \A i \in 1 .. Len(graphs[k].merged_vertices_map) :
          Range(graphs[k].merged_vertices_map[i].list) \subseteq Vertices
    /\ g_last.op = "same_color" =>
          /\ (next_vertex_id - 1) \in MergedKeys(GraphOf(g_last.node))
          /\ (ConstituentsBefore(g_last.v) \cup ConstituentsBefore(g_last.u))
                \subseteq Range(MergedList(GraphOf(g_last.node), next_vertex_id - 1))

\* an edge list without an edge from a vertex to itself and without an unordered pair
\* that occurs twice
SimpleEdges(edges) ==
    /\ \A i \in 1 .. Len(edges) : edges[i].source # edges[i].target
    /\ \A i, j \in 1 .. Len(edges) : i < j => Pair(edges[i]) # Pair(edges[j])

GraphMutations ==
    {"remove_vertex", "remove_other_vertices_in_partition", "same_color", "different_color"}

\* C27 (edge set stays simple): a call of remove_vertex, remove_other_vertices_in_partition,
\* same_color or different_color on an auxiliary graph whose edge list has no self-loop
\* and no unordered pair twice leaves an edge list with no self-loop and no unordered
\* pair twice; same_color keeps one edge where u and w had a common neighbour.
C27_EdgesStaySimple ==
    (g_last.op \in GraphMutations /\ SimpleEdges(g_last.pre.edges)) =>
        SimpleEdges(EdgeView(edge_heap, GraphOf(g_last.node)))

\* same_color(v, u) on two vertices with no edge between them that have a common
\* neighbour x, in a graph with a simple edge list
C27_CommonNeighbour ==
    /\ g_last.op = "same_color"
    /\ SimpleEdges(g_last.pre.edges)
    /\ g_last.v # g_last.u
    /\ {g_last.v, g_last.u} \notin Endpoints(g_last.pre.edges)
    /\ \E x \in KnownIds : /\ x \notin {g_last.v, g_last.u}
                            /\ {g_last.v, x} \in Endpoints(g_last.pre.edges)
                            /\ {g_last.u, x} \in Endpoints(g_last.pre.edges)

\* the weight the update is to give a constituent: the dual of its partition
ConstituentWeight(g, c, dual) ==
    IF c \in Vertices THEN dual[PartitionOf(c)]
    ELSE IF c \in DOMAIN g.weight_v THEN g.weight_v[c] ELSE 0

RECURSIVE ConstituentSum(_, _, _)
ConstituentSum(g, list, dual) ==
    IF list = <<>> THEN 0
    ELSE ConstituentWeight(g, Head(list), dual) + ConstituentSum(g, Tail(list), dual)

\* C28 (update_weightf): on every auxiliary graph reached by the branching mutations and
\* for every dual vector, update_weightf(duals) completes, also when the graph holds
\* merged vertices; afterwards every original vertex of vertices_map has the weight
\* duals[its partition] and every key of merged_vertices_map has the sum of the weights
\* of its constituents.
C28_UpdateWeightf ==
    \A k \in 1 .. Len(graphs) : \A dual \in DualVectors, zp \in MergedPartitions :
        LET r == update_weightf(graphs[k], dual, zp)
            g == r.graph
        IN /\ ~r.raised
           /\ \A v \in Range(g.vertices_map) \cap Vertices :
                 v \in DOMAIN g.weight_v /\ g.weight_v[v] = dual[PartitionOf(v)]
           /\ \A z \in MergedKeys(g) :
                 /\ z \in DOMAIN g.weight_v
                 /\ g.weight_v[z] = ConstituentSum(g, MergedList(g, z), dual)

\* the vertices remove_vertex(v) is to take out: v, and its constituents when v is a key
\* of merged_vertices_map
Removed(g, v) == IF v \in MergedKeys(g) THEN {v} \cup Range(MergedList(g, v)) ELSE {v}

\* C29 (remove_vertex, effect and frame): in every state of every auxiliary graph and for
\* every vertex v, after remove_vertex(v) v is in neither vertices_map nor weight_v and
\* on no edge; when v is a key of merged_vertices_map the same holds of v and of each
\* of its constituents and v is no key any more; every other vertex, weight, edge and
\* merged entry is as before.
C29_RemoveVertexEffect ==
    \A k \in 1 .. Len(graphs) : \A v \in KnownIds :
        LET before == graphs[k]
            after == remove_vertex(before, edge_heap, v)
            gone == Removed(before, v)
            Stays(x) == x \notin gone
            EdgeStays(e) == Pair(edge_heap[e]) \cap gone = {}
            EntryStays(m) == m.key # v
        IN /\ \A x \in gone : Absent(after, edge_heap, x)
           /\ after.vertices_map = SelectSeq(before.vertices_map, Stays)
           /\ after.weight_v = [x \in (DOMAIN before.weight_v) \ gone |-> before.weight_v[x]]
           /\ after.auxiliary_edges = SelectSeq(before.auxiliary_edges, EdgeStays)
           /\ after.merged_vertices_map = SelectSeq(before.merged_vertices_map, EntryStays)

\* C30 (columns list original vertices only): every column in every pool, those that
\* generate_columns made from a graph with merged vertices included, lists vertices of
\* the input graph only: a merged vertex that the pricing solution selects is replaced
\* by its constituents when the column is made.
C30_ColumnsListOriginalVertices ==
    \A p \in 1 .. Len(pools) : \A i \in 1 .. Len(pools[p]) :
        Range(pools[p][i].vertex_list) \subseteq Vertices

-----------------------------------------------------------------------------
(* ColumnIndependentSet.__eq__ / __hash__ and the ColumnPool of src/cg/column_pool.py *)

\* the arguments of the two constructions of the program: _add_artificial_columns and
\* ExactPricingSolver.generate_columns
ColumnArgs ==
    [vertex_list : {<<0>>, <<0, 2>>, <<2, 0>>},
     associated_pricing_problem : {"artificial"},
     is_artificial : {TRUE},
     creator : {"artificial_initialization"}]
    \cup
    [vertex_list : {<<0>>, <<0, 2>>, <<2, 0>>},
     associated_pricing_problem : PricingProblems,
     is_artificial : {FALSE},
     creator : {"Exact Pricing Solver"}]

\* ColumnIndependentSet.__init__: the column takes _next_column_id
ColumnIndependentSet(a, id) ==
    [vertex_list |-> a.vertex_list,
     associated_pricing_problem |-> a.associated_pricing_problem,
     is_artificial_column |-> a.is_artificial,
     creator |-> a.creator,
     columnid |-> id]

\* ColumnIndependentSet.__eq__ (the vertex lists compare element by element, in order)
Column_eq(c, d) ==
    /\ c.vertex_list = d.vertex_list
    /\ c.is_artificial_column = d.is_artificial_column
    /\ c.creator = d.creator
    /\ c.associated_pricing_problem = d.associated_pricing_problem

\* ColumnIndependentSet.__hash__: hash(self.columnid), the id itself
Column_hash(c) == c.columnid

\* the key test of a dict: equal hashes, and the same object or __eq__
KeyMatch(c, d) == Column_hash(c) = Column_hash(d) /\ (c = d \/ Column_eq(c, d))

\* the position of `column` among the keys of the dict entries, 0 when it is no key
KeyIndex(entries, column) ==
    IF \E k \in 1 .. Len(entries) : KeyMatch(entries[k][1], column)
    THEN CHOOSE k \in 1 .. Len(entries) : KeyMatch(entries[k][1], column)
    ELSE 0

\* ColumnPool.addColumn: self.varMap[pricingProblem][column] = variable
ColumnPool_addColumn(vm, column, pricingProblem, variable) ==
    LET entries == vm[pricingProblem]
        k == KeyIndex(entries, column)
    IN [vm EXCEPT ![pricingProblem] =
            IF k = 0 THEN Append(entries, <<column, variable>>)
            ELSE [entries EXCEPT ![k] = <<entries[k][1], variable>>]]

\* ColumnPool.removeColumn: self.varMap[pricingProblem].pop(column), for a key of the dict
ColumnPool_removeColumn(vm, column, pricingProblem) ==
    LET entries == vm[pricingProblem]
        k == KeyIndex(entries, column)
    IN [vm EXCEPT ![pricingProblem] =
            [j \in 1 .. (Len(entries) - 1) |-> IF j < k THEN entries[j] ELSE entries[j + 1]]]

\* ColumnPool.getColumns: the keys, in the order of their insertion
ColumnPool_getColumns(vm, pricingProblem) ==
    [k \in 1 .. Len(vm[pricingProblem]) |-> vm[pricingProblem][k][1]]

\* ColumnPool.getNrColumns
ColumnPool_getNrColumns(vm, pricingProblem) == Len(vm[pricingProblem])

\* column in pool.getColumns(pricingProblem)
ColumnPool_contains(vm, column, pricingProblem) == KeyIndex(vm[pricingProblem], column) # 0

PoolCall(op, i) == [op |-> op, column |-> i, pre |-> varMap, raised |-> FALSE]

\* a ColumnIndependentSet is constructed
NewColumn ==
    /\ Len(created_columns) < MaxColumns
    /\ \E a \in ColumnArgs :
         created_columns' =
             Append(created_columns, ColumnIndependentSet(a, Len(created_columns) + 1))
    /\ p_last' = PoolCall("new", Len(created_columns) + 1)
    /\ UNCHANGED <<varMap, p_ops>>
    /\ UNCHANGED <<gvars, qvars, hvars, cvars, tvars, bvars>>

\* pool.addColumn(column, pricingProblem, variable), with the variable the master has
\* just made for it
PoolAddColumn ==
    /\ p_ops < MaxPoolOps
    /\ \E i \in 1 .. Len(created_columns) :
         /\ varMap' = ColumnPool_addColumn(varMap, created_columns[i], "main_pricing",
                                           p_ops + 1)
         /\ p_last' = PoolCall("addColumn", i)
    /\ p_ops' = p_ops + 1
    /\ UNCHANGED created_columns
    /\ UNCHANGED <<gvars, qvars, hvars, cvars, tvars, bvars>>

\* pool.removeColumn(column, pricingProblem); dict.pop raises KeyError on a missing key
PoolRemoveColumn ==
    /\ p_ops < MaxPoolOps
    /\ \E i \in 1 .. Len(created_columns) :
         IF ColumnPool_contains(varMap, created_columns[i], "main_pricing")
         THEN /\ varMap' = ColumnPool_removeColumn(varMap, created_columns[i],
                                                   "main_pricing")
              /\ p_last' = PoolCall("removeColumn", i)
         ELSE /\ varMap' = varMap
              /\ p_last' = [PoolCall("removeColumn", i) EXCEPT !.raised = TRUE]
    /\ p_ops' = p_ops + 1
    /\ UNCHANGED created_columns
    /\ UNCHANGED <<gvars, qvars, hvars, cvars, tvars, bvars>>

PoolInit == GraphIdle /\ QueueIdle /\ SolveIdle

PoolNext == NewColumn \/ PoolAddColumn \/ PoolRemoveColumn

SpecPool == PoolInit /\ [][PoolNext]_vars

\* C18 (equal columns, equal hashes): two ColumnIndependentSet objects constructed with
\* the same vertices, pricing problem, artificial flag and creator compare equal and
\* have equal hashes; columns with different vertex sets compare unequal.
C18_EqualColumnsEqualHashes ==
    \A i, j \in 1 .. Len(created_columns) :
        LET c == created_columns[i]
            d == created_columns[j]
        IN /\ ( /\ c.vertex_list = d.vertex_list
                /\ c.associated_pricing_problem = d.associated_pricing_problem
                /\ c.is_artificial_column = d.is_artificial_column
                /\ c.creator = d.creator )
                => (Column_eq(c, d) /\ Column_hash(c) = Column_hash(d))
           /\ {c.vertex_list[k] : k \in 1 .. Len(c.vertex_list)}
                  # {d.vertex_list[k] : k \in 1 .. Len(d.vertex_list)}
                => ~Column_eq(c, d)

\* the column of the last call on the pool
LastColumn == created_columns[p_last.column]

\* C19 (pool add / remove): addColumn(c) increases the number of columns of the pool by
\* one and makes c a member; removeColumn(c) on a pool containing c decreases the number
\* by one, after which c is no member and all other columns are kept.
C19_PoolAddRemove ==
    /\ p_last.op = "addColumn" =>
          /\ ColumnPool_getNrColumns(varMap, "main_pricing")
                = ColumnPool_getNrColumns(p_last.pre, "main_pricing") + 1
          /\ ColumnPool_contains(varMap, LastColumn, "main_pricing")
    /\ (p_last.op = "removeColumn"
           /\ ColumnPool_contains(p_last.pre, LastColumn, "main_pricing")) =>
          /\ ColumnPool_getNrColumns(varMap, "main_pricing")
                = ColumnPool_getNrColumns(p_last.pre, "main_pricing") - 1
          /\ ~ColumnPool_contains(varMap, LastColumn, "main_pricing")
          /\ \A i \in 1 .. Len(created_columns) :
                (i # p_last.column
                   /\ ColumnPool_contains(p_last.pre, created_columns[i], "main_pricing"))
                => ColumnPool_contains(varMap, created_columns[i], "main_pricing")

\* the run of ColumnGeneration.solve that process_node has just made
LastRun == c_last.cg

\* ceil(z - epsilon) >= upper_bound, for the objective of the j-th master of the last run
DominatesAt(j) == Ceil(LastRun.zs[j]) >= LastRun.upper_bound

\* C16 (termination on the upper bound): in ColumnGeneration.solve the loop stops right
\* after the first master solve whose objective z has ceil(z - epsilon) >= upper_bound,
\* without a pricing call after it: the masters solved are those up to that one, each
\* earlier one followed by one pricing call; when it is the first solve, the master is
\* solved once, pricing is not called, and iteration = 1.
C16_StopOnUpperBound ==
    (c_last.op = "process_node" /\ LastRun.iteration >= 1) =>
        /\ \A j \in 1 .. Len(LastRun.zs) : DominatesAt(j) => LastRun.iteration <= j
        /\ DominatesAt(LastRun.iteration) =>
              /\ LastRun.terminated
              /\ LastRun.master_calls = LastRun.iteration
              /\ LastRun.pricing_calls = LastRun.iteration - 1
              /\ Len(LastRun.trace) = 2 * LastRun.iteration - 1
              /\ LastRun.trace[Len(LastRun.trace)] = "master"
        /\ DominatesAt(1) =>
              /\ LastRun.master_calls = 1
              /\ LastRun.pricing_calls = 0
              /\ LastRun.iteration = 1
              /\ LastRun.trace = <<"master">>

\* column generation met an incumbent and stopped on its first master solve, with
\* further master objectives to come had it gone on
C16_Witness ==
    /\ c_last.op = "process_node"
    /\ LastRun.upper_bound \in RealObjectives
    /\ Len(LastRun.zs) = 2
    /\ DominatesAt(1)
    /\ LastRun.iteration = 1

\* C17 (alternation until pricing is empty): when no termination test fires in a run
\* of ColumnGeneration.solve in which pricing returns columns k times and then none,
\* master solves and pricing calls alternate strictly, master first, and the run ends
\* with the master solved k + 1 times, pricing called k + 1 times and iteration = k + 1.
C17_AlternateUntilNoColumns ==
    (c_last.op = "process_node" /\ LastRun.iteration >= 1
        /\ \A j \in 1 .. Len(LastRun.zs) : ~DominatesAt(j) /\ LastRun.zs[j] # 0) =>
        /\ ~LastRun.terminated
        /\ LastRun.master_calls = Len(LastRun.zs)
        /\ LastRun.pricing_calls = Len(LastRun.zs)
        /\ LastRun.iteration = Len(LastRun.zs)
        /\ LastRun.trace = [j \in 1 .. 2 * Len(LastRun.zs) |->
                               IF j % 2 = 1 THEN "master" ELSE "pricing"]

\* a run with an incumbent as upper bound in which pricing returned columns once and
\* then none, and no termination test fired
C17_Witness ==
    /\ c_last.op = "process_node"
    /\ LastRun.upper_bound \in RealObjectives
    /\ Len(LastRun.zs) = 2
    /\ ~LastRun.terminated
    /\ LastRun.pricing_calls = 2

-----------------------------------------------------------------------------
(* Which nodes solve branches, checked under Spec *)

\* C21 (branching only on fractional feasible nodes): branch_node is invoked only for
\* the popped node, after its column generation, when its solution is non-empty, holds
\* no artificial column and is not integral; a node whose solution holds an artificial
\* column leaves the iteration pruned (nodes_pruned counted), with no child queued and
\* the incumbent unchanged.
C21_BranchOnlyFractional ==
    [][/\ (c_last'.op = "branch_node" /\ c_last.op # "branch_node") =>
            /\ pc = "classify"
            /\ nodes_processed >= 1
            /\ current_node.nodeid # NoNode.nodeid
            /\ current_node.solution \notin {"empty", "artificial", "integer"}
       /\ (pc \in {"prune_check_2", "classify"} /\ current_node.solution = "artificial") =>
            /\ c_last'.op # "branch_node"
            /\ node_queue' = node_queue
            /\ best_objective' = best_objective
            /\ best_solution' = best_solution
            /\ pc' \in {pc, "classify", "loop"}
            /\ pc' = "loop" => nodes_pruned' = nodes_pruned + 1]_vars

\* a child of a branched node came back from column generation with an artificial
\* column in its solution and was pruned by is_infeasible_solution
C21_Witness ==
    /\ c_last.op = "is_infeasible_solution"
    /\ current_node.solution = "artificial"
    /\ current_node.depth >= 1
    /\ pc = "loop"

-----------------------------------------------------------------------------
(* BranchCreator: src/bpc/branch_creator.py.  The solution is the dict column -> value
   as a list of its items in insertion order; values are counted in quarters. *)

\* the instance the creator works on: clusters {0, 1}, {2} and {4}
BranchVertices == {0, 1, 2, 4}

\* vertex.associated_partition
BranchPartitionOf(v) == v \div 2

\* a_graph.vertices_map.values(), in the order of the ids
BranchVertexMap == SeqOfSet(BranchVertices)

\* column.vertex_list of the columns pricing makes: independent sets of the auxiliary
\* graph, so at most one vertex of a cluster, listed in the order of vertices_map
BranchColumns ==
    {SeqOfSet(S) : S \in {T \in SUBSET BranchVertices :
                              /\ T # {}
                              /\ \A v, w \in T :
                                    BranchPartitionOf(v) = BranchPartitionOf(w) => v = w}}

\* the values solveMaster keeps: those above 1e-6, here 1/4 .. 4/4
BranchSolutions ==
    UNION {[1 .. k -> [vertex_list : BranchColumns, value : 1 .. 4]] :
              k \in 1 .. MaxSolutionColumns}

RECURSIVE SumValues(_, _)
SumValues(solution, I) ==
    IF I = {} THEN 0
    ELSE LET i == CHOOSE x \in I : TRUE
         IN solution[i].value + SumValues(solution, I \ {i})

\* verteices_value[vertex]: the sum of the values of the positive columns holding it
VertexValue(solution, v) ==
    SumValues(solution, {i \in 1 .. Len(solution) :
                            solution[i].value > 0 /\ v \in Range(solution[i].vertex_list)})

RECURSIVE Concat(_, _)
Concat(solution, i) ==
    IF i > Len(solution) THEN <<>>
    ELSE (IF solution[i].value > 0 THEN solution[i].vertex_list ELSE <<>>)
            \o Concat(solution, i + 1)

RECURSIVE Distinct(_)
Distinct(s) ==
    IF s = <<>> THEN <<>>
    ELSE LET NotHead(x) == x # Head(s) IN <<Head(s)>> \o Distinct(SelectSeq(Tail(s), NotHead))

\* the keys of verteices_value, in the order of their insertion
ColoredVertices(solution) == Distinct(Concat(solution, 1))

\* vetices_num_colored_for_each_partition: its keys in the order of their insertion,
\* and the list of a key
ColoredPartitions(solution) ==
    Distinct([i \in 1 .. Len(ColoredVertices(solution)) |->
                 BranchPartitionOf(ColoredVertices(solution)[i])])

ColoredIn(solution, q) ==
    LET InQ(v) == BranchPartitionOf(v) = q IN SelectSeq(ColoredVertices(solution), InQ)

\* max(items, key=len): the first key, in insertion order, of the longest list
max_num_colored_partition(solution) ==
    LET ps == ColoredPartitions(solution)
        i == CHOOSE k \in 1 .. Len(ps) :
                /\ \A j \in 1 .. Len(ps) :
                      Len(ColoredIn(solution, ps[j])) <= Len(ColoredIn(solution, ps[k]))
                /\ \A j \in 1 .. (k - 1) :
                      Len(ColoredIn(solution, ps[j])) < Len(ColoredIn(solution, ps[k]))
    IN ps[i]

\* check_branch_rule1: with more than one coloured vertex in that partition, the loop
\* over verteices_value returns True at the first vertex of the partition it meets,
\* having set checked_vertex to it (its value is above max_value = 0)
check_branch_rule1(solution) ==
    LET q == max_num_colored_partition(solution)
    IN IF Len(ColoredIn(solution, q)) > 1
       THEN [fires |-> TRUE, checked_vertex |-> ColoredIn(solution, q)[1]]
       ELSE [fires |-> FALSE, checked_vertex |-> 0]

\* gamma of check_branch_rule2: the sum of the values of the columns holding both
Gamma(solution, v, u) ==
    SumValues(solution, {i \in 1 .. Len(solution) :
                            {v, u} \subseteq Range(solution[i].vertex_list)})

\* gamma != int(gamma)
IsFractional(g) == g % 4 # 0

\* the pairs the two loops of check_branch_rule2 visit, by their positions in
\* vertices_map: the vertices of one partition are skipped
CrossPairs(vmap) ==
    {p \in (1 .. Len(vmap)) \X (1 .. Len(vmap)) :
        BranchPartitionOf(vmap[p[1]]) # BranchPartitionOf(vmap[p[2]])}

Before(p, r) == p[1] < r[1] \/ (p[1] = r[1] /\ p[2] <= r[2])

\* a rule 2 that takes the first fractional pair, against which check_branch_rule2
\* is set
check_branch_rule2_first_fractional(solution, vmap) ==
    LET G(p) == Gamma(solution, vmap[p[1]], vmap[p[2]])
        F == {p \in CrossPairs(vmap) : IsFractional(G(p)) /\ G(p) > 0}
    IN IF F = {} THEN [fires |-> FALSE, checked_vertex_v |-> 0, checked_vertex_u |-> 0]
       ELSE LET p == CHOOSE x \in F : \A r \in F : Before(x, r)
            IN [fires |-> TRUE, checked_vertex_v |-> vmap[p[1]],
                checked_vertex_u |-> vmap[p[2]]]

\* check_branch_rule2: max_fraction and the pair are replaced when gamma is fractional
\* and above max_fraction, so the pair kept is the first visited of the largest
\* fractional gamma; it fires when max_fraction > 0
check_branch_rule2(solution, vmap) ==
    LET G(p) == Gamma(solution, vmap[p[1]], vmap[p[2]])
        F == {p \in CrossPairs(vmap) : IsFractional(G(p)) /\ G(p) > 0}
    IN IF F = {} THEN [fires |-> FALSE, checked_vertex_v |-> 0, checked_vertex_u |-> 0]
       ELSE LET p == CHOOSE x \in F :
                        \A r \in F : G(x) > G(r) \/ (G(x) = G(r) /\ Before(x, r))
            IN [fires |-> TRUE, checked_vertex_v |-> vmap[p[1]],
                checked_vertex_u |-> vmap[p[2]]]

\* create_branch: rule 1, else rule 2, else None.  create_branch_rule2 calls
\* SameColor(self.a_graph, v, u), whose __init__ takes the pair alone: TypeError.
create_branch(solution, vmap) ==
    LET r1 == check_branch_rule1(solution)
        r2 == check_branch_rule2(solution, vmap)
    IN IF r1.fires
       THEN [op |-> "create_branch", rule |-> 1, v |-> r1.checked_vertex,
             u |-> r1.checked_vertex, rule2_tried |-> FALSE, raised |-> FALSE]
       ELSE IF r2.fires
       THEN [op |-> "create_branch", rule |-> 2, v |-> r2.checked_vertex_v,
             u |-> r2.checked_vertex_u, rule2_tried |-> TRUE, raised |-> TRUE]
       ELSE [op |-> "create_branch", rule |-> 0, v |-> 0, u |-> 0,
             rule2_tried |-> TRUE, raised |-> FALSE]

\* BranchCreator(solution, column_pool, a_graph)
NewBranchCreator ==
    /\ b_last.op = "none"
    /\ b_solution' \in BranchSolutions
    /\ b_last' = [NoBranchCall EXCEPT !.op = "init"]
    /\ UNCHANGED <<gvars, qvars, hvars, cvars, tvars, pvars>>

\* the clusters of the instance
BranchPartitions == {BranchPartitionOf(v) : v \in BranchVertices}

\* the left side of the constraint of cluster q in the restricted master: the values of
\* the columns with a vertex of q (add_column_to_rmp gives one term for each vertex)
Coverage(solution, q) ==
    SumValues(solution, {i \in 1 .. Len(solution) :
                            \E v \in Range(solution[i].vertex_list) : BranchPartitionOf(v) = q})

\* what solveMaster can return for a restricted master of priced columns: the columns
\* are different, every cluster is covered at least once (lhs >= 1), and no value can be
\* lowered (each column is in a constraint that is tight), as in every optimal basic
\* solution
IsMasterSolution(solution) ==
    /\ \A i, j \in 1 .. Len(solution) :
          i # j => Range(solution[i].vertex_list) # Range(solution[j].vertex_list)
    /\ \A q \in BranchPartitions : Coverage(solution, q) >= 4
    /\ \A i \in 1 .. Len(solution) :
          \E v \in Range(solution[i].vertex_list) :
              Coverage(solution, BranchPartitionOf(v)) = 4

RECURSIVE SeqOfColumns(_)
SeqOfColumns(C) ==
    IF C = {} THEN <<>>
    ELSE LET c == CHOOSE x \in C : TRUE IN <<c>> \o SeqOfColumns(C \ {c})

\* the solutions of masters with up to one column more than the clusters can need
MasterSolutionsOf(C) ==
    {sol \in {[i \in 1 .. Len(SeqOfColumns(C)) |->
                   [vertex_list |-> SeqOfColumns(C)[i], value |-> f[SeqOfColumns(C)[i]]]] :
                 f \in [C -> 1 .. 4]} : IsMasterSolution(sol)}

\* BranchCreator(current_node.solution, ...) in branch_node: the solution is the one
\* column generation returned for the node
NewBranchCreatorOfNode ==
    /\ b_last.op = "none"
    /\ \E C \in {T \in SUBSET BranchColumns :
                    T # {} /\ Cardinality(T) <= MaxSolutionColumns + 1} :
          b_solution' \in MasterSolutionsOf(C)
    /\ b_last' = [NoBranchCall EXCEPT !.op = "init"]
    /\ UNCHANGED <<gvars, qvars, hvars, cvars, tvars, pvars>>

\* branch_creator.create_branch()
CreateBranch ==
    /\ b_last.op = "init"
    /\ b_last' = create_branch(b_solution, BranchVertexMap)
    /\ UNCHANGED b_solution
    /\ UNCHANGED <<gvars, qvars, hvars, cvars, tvars, pvars>>

BranchInit == GraphIdle /\ QueueIdle /\ SolveIdle

BranchNext == NewBranchCreator \/ NewBranchCreatorOfNode \/ CreateBranch

SpecBranch == BranchInit /\ [][BranchNext]_vars

\* the vertices of cluster q in positive columns of the solution
R(q) == {v \in BranchVertices : BranchPartitionOf(v) = q /\ VertexValue(b_solution, v) > 0}

\* C22 (rule A picks the heaviest vertex): when create_branch answers by rule 1, the
\* vertex of the ImposedVertex / ForbidVertex pair is a coloured vertex of a cluster
\* with the most coloured vertices, more than one, and no coloured vertex of that
\* cluster has a larger sum of column values.
C22_RuleAPicksHeaviest ==
    (b_last.op = "create_branch" /\ b_last.rule = 1) =>
        LET q == BranchPartitionOf(b_last.v)
        IN /\ b_last.v \in R(q)
           /\ Cardinality(R(q)) > 1
           /\ \A q2 \in {BranchPartitionOf(v) : v \in BranchVertices} :
                 Cardinality(R(q2)) <= Cardinality(R(q))
           /\ \A w \in R(q) : VertexValue(b_solution, w) <= VertexValue(b_solution, b_last.v)

\* gamma of a pair of vertices in the solution the creator was given
LastGamma(v, u) == Gamma(b_solution, v, u)

\* the pairs of vertices of two different clusters whose gamma is fractional
FractionalPairs ==
    {p \in BranchVertices \X BranchVertices :
        /\ BranchPartitionOf(p[1]) # BranchPartitionOf(p[2])
        /\ LastGamma(p[1], p[2]) % 4 # 0}

\* C23 (rule B): create_branch tries rule 2 only when rule 1 does not fire (no cluster
\* has two coloured vertices); when rule 2 fires, the pair it chose lies in two
\* different clusters and its gamma -- the sum of the values of the columns holding
\* both -- is non-integer, positive and largest among the fractional cross-cluster
\* gammas; rule 2 does not fire when every cross-cluster gamma is an integer.
C23_RuleBPicksLargestFraction ==
    b_last.op = "create_branch" =>
        /\ b_last.rule2_tried =>
              \A q \in {BranchPartitionOf(v) : v \in BranchVertices} : Cardinality(R(q)) <= 1
        /\ b_last.rule = 2 =>
              /\ b_last.rule2_tried
              /\ BranchPartitionOf(b_last.v) # BranchPartitionOf(b_last.u)
              /\ LastGamma(b_last.v, b_last.u) % 4 # 0
              /\ LastGamma(b_last.v, b_last.u) > 0
              /\ \A p \in FractionalPairs :
                    LastGamma(p[1], p[2]) <= LastGamma(b_last.v, b_last.u)
        /\ FractionalPairs = {} => b_last.rule # 2

\* rule 2 fired on a solution with two fractional cross-cluster gammas of different
\* size
C23_Witness ==
    /\ b_last.op = "create_branch"
    /\ b_last.rule = 2
    /\ \E p \in FractionalPairs : LastGamma(p[1], p[2]) < LastGamma(b_last.v, b_last.u)


-----------------------------------------------------------------------------
(* The life of a node in solve, checked under Spec *)

\* C31 (the root passes the first prune check): the root node, of objective_value -inf
\* with best_objective +inf, is not skipped by the first is_prunable_node and the check
\* does not end the run: the step that leaves the first prune check of the root goes
\* to process_node.
C31_RootPassesPruneCheck ==
    [][(/\ pc = "prune_check_1"
        /\ current_node.objective_value = NegInf
        /\ pc' # pc) => pc' = "process_node"]_vars

\* the heap invariant of heapq: no node is smaller than its parent
MinHeap(h) == \A i \in 2 .. Len(h) : ~NodeLt(h[i], h[i \div 2])

InHand == {"prune_check_1", "prune_check_2", "process_node", "classify"}

QueuedIds(queue) == {queue[i].nodeid : i \in 1 .. Len(queue)}

\* the ways the step that lets go of the node in hand can end it
PrunedByBound ==
    /\ pc \in {"prune_check_1", "prune_check_2"}
    /\ pc' = "loop"
    /\ nodes_pruned' = nodes_pruned + 1
    /\ UNCHANGED <<node_queue, best_objective, best_solution>>

PrunedForArtificial ==
    /\ pc = "classify"
    /\ pc' = "loop"
    /\ current_node.solution \in {"empty", "artificial"}
    /\ nodes_pruned' = nodes_pruned + 1
    /\ UNCHANGED <<node_queue, best_objective, best_solution>>

RecordedAsCandidate ==
    /\ pc = "classify"
    /\ pc' = "loop"
    /\ current_node.solution = "integer"
    /\ c_last'.op = "update_best_solution"
    /\ QueuedIds(node_queue') \subseteq QueuedIds(node_queue)

BranchedInTwo ==
    /\ pc = "classify"
    /\ pc' = "loop"
    /\ current_node.solution = "fractional"
    /\ Len(node_queue') = Len(node_queue) + 2
    /\ QueuedIds(node_queue') = QueuedIds(node_queue) \cup {next_nodeid, next_nodeid + 1}
    /\ \A i \in 1 .. Len(node_queue') :
          node_queue'[i].nodeid \in {next_nodeid, next_nodeid + 1} =>
             node_queue'[i].objective_value = current_node.objective_value
    /\ UNCHANGED <<best_objective, best_solution>>

RequeuedOnTimeout ==
    /\ pc = "process_node"
    /\ pc' = "finish"
    /\ QueuedIds(node_queue') = QueuedIds(node_queue) \cup {current_node.nodeid}
    /\ Len(node_queue') = Len(node_queue) + 1

Outcomes ==
    {o \in {"bound", "artificial", "integer", "branched", "requeued"} :
        \/ o = "bound" /\ PrunedByBound
        \/ o = "artificial" /\ PrunedForArtificial
        \/ o = "integer" /\ RecordedAsCandidate
        \/ o = "branched" /\ BranchedInTwo
        \/ o = "requeued" /\ RequeuedOnTimeout}

\* C33 (the life of a node): in a run of solve every node is popped at most once -- the
\* queue holds each node id once, a node enters it with a new id or by the re-queue on
\* timeout, and after that re-queue the loop is left -- and the step that lets go of a
\* popped node ends it in exactly one of: pruned by bound, pruned for an artificial
\* column, recorded as integer candidate, branched into two children that carry the
\* node's objective_value after column generation, re-queued on timeout.
C33_NodeLifecycle ==
    [][/\ Len(node_queue') = Cardinality(QueuedIds(node_queue'))
       /\ \A id \in QueuedIds(node_queue') \ QueuedIds(node_queue) :
             \/ id >= next_nodeid
             \/ id = current_node.nodeid /\ pc' = "finish"
       /\ (pc \in {"finish", "done"}) => (pc' \in {"finish", "done"})
       /\ (pc \in InHand /\ pc' \notin InHand) => Cardinality(Outcomes) = 1]_vars

-----------------------------------------------------------------------------
(* create_branch on the solutions branch_node hands it, checked under SpecBranch *)

\* a solution with which solve reaches branch_node: what the master returned, not
\* empty, of priced columns only, with a value that is neither 0 nor 1
ReachesBranchNode(solution) ==
    /\ solution # <<>>
    /\ IsMasterSolution(solution)
    /\ \E i \in 1 .. Len(solution) : solution[i].value \in 1 .. 3

\* C35 (create_branch always gives a pair): for every solution with which branch_node
\* is reached, rule 1 or rule 2 fires and create_branch returns the pair of decisions
\* of that rule; it does not return None.
C35_CreateBranchGivesPair ==
    (b_last.op = "create_branch" /\ ReachesBranchNode(b_solution)) =>
        (b_last.rule \in {1, 2} /\ ~b_last.raised)

\* the columns of the parent's solution as they stand in the parent's pool: priced
\* columns (a solution with an artificial column does not reach branch_node)
SolutionPool(solution) ==
    [i \in 1 .. Len(solution) |-> Column(solution[i].vertex_list, FALSE, i)]

\* the pair create_branch_rule1 / create_branch_rule2 builds on the checked vertices
DecisionsOf(call) ==
    IF call.rule = 1 THEN BranchRule1(call.v) ELSE BranchRule2(call.v, call.u)

\* the decision's column_filter removes a column of the solution from the pool
CutsSolution(d, solution) ==
    Len(column_filter(d, SolutionPool(solution))) < Len(SolutionPool(solution))

\* C37 (both children lose a column of the parent's solution): for every solution with
\* which branch_node is reached, create_branch returns two decisions, and the
\* column_filter of each removes at least one column that has a positive value in the
\* solution, so each child's pool is a strict subset of the parent's.
C37_BothChildrenCutSolution ==
    (b_last.op = "create_branch" /\ ReachesBranchNode(b_solution)) =>
        /\ b_last.rule \in {1, 2}
        /\ ~b_last.raised
        /\ \A k \in {1, 2} : CutsSolution(DecisionsOf(b_last)[k], b_solution)

-----------------------------------------------------------------------------
(* The children of branch_node: graph and pool together, checked under SpecNode *)

ParentGraph == g_last.pre[g_last.node].a_graph

ChildGraph(b) == ViewOf(Len(g_last.pre) + b).a_graph

\* the vertex of the graph that stands for x: x itself when it is in vertices_map, else
\* the merged vertices of vertices_map that list x as a constituent
StandsFor(gv, x) ==
    IF x \in Range(gv.vertices_map) THEN {x}
    ELSE {gv.merged_vertices_map[i].key : i \in
             {j \in 1 .. Len(gv.merged_vertices_map) :
                 /\ gv.merged_vertices_map[j].key \in Range(gv.vertices_map)
                 /\ x \in Range(gv.merged_vertices_map[j].list)}}

\* a column that fits a graph: each of its vertices is in the graph or is a constituent
\* of a merged vertex of the graph, no edge of the graph has both ends on it, and it
\* has at most one vertex of a cluster
FitsGraph(gv, c) ==
    LET on == UNION {StandsFor(gv, x) : x \in Range(c.vertex_list)}
    IN /\ \A x \in Range(c.vertex_list) : StandsFor(gv, x) # {}
       /\ \A i \in 1 .. Len(gv.edges) :
             ~(gv.edges[i].source \in on /\ gv.edges[i].target \in on)
       /\ \A x, y \in Range(c.vertex_list) :
             (x # y /\ x \in Vertices /\ y \in Vertices) => PartitionOf(x) # PartitionOf(y)

PricedColumns(pool) == {c \in Range(pool) : ~c.is_artificial_column}

\* the branchings create_branch can make of a solution over the parent's priced
\* columns: rule 1 on a vertex of a column, rule 2 on two vertices of one column
FromSolution ==
    IF g_last.v = g_last.u
    THEN \E c \in PricedColumns(ParentPool) : Contains(c, g_last.v)
    ELSE \E c \in PricedColumns(ParentPool) : Contains(c, g_last.v) /\ Contains(c, g_last.u)

-----------------------------------------------------------------------------
(* The measure behind the termination of solve: a child's graph against its parent's,
   checked under SpecTree *)

\* the branchings create_branch makes: rule 1 on a vertex of a priced column whose
\* cluster has another vertex in a priced column, rule 2 on two vertices of
\* vertices_map that one priced column holds
DecidedBySolution ==
    IF g_last.v = g_last.u
    THEN \E c, d \in PricedColumns(ParentPool) :
            /\ Contains(c, g_last.v)
            /\ \E w \in Range(PartitionVertexList(PartitionOf(g_last.v))) :
                  w # g_last.v /\ Contains(d, w)
    ELSE /\ {g_last.v, g_last.u} \subseteq Range(ParentGraph.vertices_map)
         /\ \E c \in PricedColumns(ParentPool) : Contains(c, g_last.v) /\ Contains(c, g_last.u)

\* fewer vertices, or one more edge on the same vertices
Shrinks(parent, child) ==
    \/ Len(child.vertices_map) < Len(parent.vertices_map)
    \/ /\ Range(child.vertices_map) = Range(parent.vertices_map)
       /\ Len(child.edges) = Len(parent.edges) + 1

-----------------------------------------------------------------------------
(* What the incumbent of solve is, checked under Spec *)

\* C39 (the incumbent is an integral solution of a processed node): whenever
\* best_solution is set it is a solution without artificial column whose values are all
\* 0 or 1 (within 1e-6); it is set only to the solution column generation returned for
\* the node in hand, and best_objective is then that node's objective_value; a node
\* whose solution holds an artificial column leaves the incumbent as it was.
C39_IncumbentIsIntegerNode ==
    /\ [](best_solution # NoSolution => best_solution.kind = "integer")
    /\ [][/\ (best_solution' # best_solution /\ best_solution' # NoSolution) =>
                /\ pc = "classify"
                /\ current_node.nodeid # NoNode.nodeid
                /\ current_node.solution = "integer"
                /\ best_solution' = [kind |-> current_node.solution,
                                     nodeid |-> current_node.nodeid]
                /\ best_objective' = current_node.objective_value
          /\ (pc \in {"prune_check_2", "classify"} /\ current_node.solution = "artificial") =>
                (best_solution' = best_solution /\ best_objective' = best_objective)]_vars

\* the integral solution of a child node has become the incumbent
C39_Witness ==
    /\ c_last.op = "update_best_solution"
    /\ c_last.returned
    /\ current_node.depth >= 1
    /\ best_solution = [kind |-> "integer", nodeid |-> current_node.nodeid]
    /\ best_objective = current_node.objective_value
=============================================================================
